---- MODULE Spec2Model ----
(***************************************************************************)
(* Tech Toolkit Hub: the rating, bookmark and comment flows over the       *)
(* document store (with its security rules), the client-side list          *)
(* pipeline (filter, sort, paginate), the admin session, the JSON import   *)
(* of tools and the loader of the tool list.                               *)
(*                                                                         *)
(* Numbers with one decimal (rating values, averageRating) are kept as     *)
(* integers in tenths: 3.0 is 30, 0.5 is 5, 4.2 is 42.                     *)
(* Every awaited store call of a handler is one step of the model: the     *)
(* handler's synchronous prefix is the action that starts it, and each     *)
(* store round trip is the action that commits it at the store.            *)
(***************************************************************************)
EXTENDS Integers, Sequences, FiniteSets, TLC

VARIABLES
    now,            \* request.time / serverTimestamp(), a logical clock
    tool,           \* the tools/{toolId} document
    ratings,        \* the ratings collection (documents of this tool)
    nextRatingId,   \* next auto-generated document id of ratings
    rdata,          \* useRatings: data, per client session
    rpc,            \* useRatings: where each session's operation stands
    rreq,           \* the operation a session is running
    rsnap,          \* updateToolAverageRating: what getDocs returned
    rresult,        \* how the operation that ended last was settled
    bookmarks,      \* the bookmarks collection
    nextBookmarkId, \* next auto-generated document id of bookmarks
    bdata,          \* useBookmarks: data, per tool card
    bloading,       \* useBookmarks: isLoading, per tool card
    isBookmarked,   \* ToolCard: isBookmarked
    processing,     \* ToolCard: isBookmarkProcessing
    bpc,            \* where each card's handleBookmarkToggle stands
    bcap,           \* the isBookmarked value the running handler closed over
    bdoc,           \* removeBookmark: the id of bookmarkSnapshot.docs[0]
    pair,           \* history: two toggles of one card, one after the other
    comments,       \* the comments collection (documents of this tool)
    nextCommentId,  \* next auto-generated document id of comments
    cdata,          \* useComments: data, per client session
    cpc,            \* useComments: where each session's operation stands
    creq,           \* the comment operation a session is running
    cever,          \* history: every comment document ever stored
    cresult,        \* the message the comment operation that ended last gave
    aiToolsData,    \* AppContent: the tool records loaded from the store
    filters,        \* AppContent: filters
    sortOrder,      \* AppContent: sortOrder
    currentPage,    \* AppContent: currentPage
    isAuthenticated,    \* useAuthContext: isAuthenticated
    firebaseConfigured, \* isFirebaseConfigured()
    bookmarkedToolIds,  \* AppContent's useBookmarks: bookmarkedToolIds
    route,          \* which page is shown: the main list or the tool manager
    tmSearchTerm,   \* ToolManager: searchTerm
    tmSelectedCategory, \* ToolManager: selectedCategory
    tmCurrentPage,  \* ToolManager: currentPage
    adminSession,   \* localStorage: the item 'adminSession'
    wallClock,      \* Date.now()
    adminRoute,     \* which admin page is mounted, if any
    adminIsAdmin,   \* useAdminAuth of the mounted page: isAdmin
    adminIsLoading, \* useAdminAuth of the mounted page: isLoading
    toolResult,     \* how the updateTool / deleteTool that ended last was settled
    importFile,     \* handleFileSelect: the JSON array read from the chosen file
    parseResult,    \* what parseToolsFromJson returned for it, or that it threw
    importPc,       \* where importToolsToFirebase stands
    importMode,     \* importToolsToFirebase: mode
    importLeft,     \* importToolsToFirebase: tools the for loop has not reached
    successCount,   \* importToolsToFirebase: successCount
    failCount,      \* importToolsToFirebase: failCount
    storedOld,      \* tools collection: documents stored before the import
    storedNew,      \* tools collection: documents the import added
    pendingCommits, \* sizes of the delete batches committed and not yet applied
    importAuth,     \* request.auth.uid of the importing client
    oldCreator,     \* createdBy of the documents stored before the import
    loadGen,        \* useTools: how often the loading effect has run
    hookCategory,   \* useTools: category
    hookSortOrder,  \* useTools: sortOrder
    toolsIsLoading, \* useTools: isLoading
    toolsError,     \* useTools: whether error is set
    toolsData,      \* useTools: the query whose result data holds
    subscription,   \* useTools: the onSnapshot listener of the last effect run
    fetches         \* useTools: the getDocs calls of fetchDataOnce in flight

svars == <<now, tool>>

rvars == <<ratings, nextRatingId, rdata, rpc, rreq, rsnap, rresult>>

bvars == <<bookmarks, nextBookmarkId, bdata, bloading, isBookmarked, processing,
           bpc, bcap, bdoc, pair>>

cvars == <<comments, nextCommentId, cdata, cpc, creq, cever, cresult>>

lvars == <<aiToolsData, filters, sortOrder, currentPage, isAuthenticated,
           firebaseConfigured, bookmarkedToolIds, route, tmSearchTerm,
           tmSelectedCategory, tmCurrentPage>>

avars == <<adminSession, wallClock, adminRoute, adminIsAdmin, adminIsLoading>>

tvars == <<toolResult>>

ivars == <<importFile, parseResult, importPc, importMode, importLeft, successCount,
           failCount, storedOld, storedNew, pendingCommits, importAuth, oldCreator>>

dvars == <<loadGen, hookCategory, hookSortOrder, toolsIsLoading, toolsError,
           toolsData, subscription, fetches>>

vars == <<svars, rvars, bvars, cvars, lvars, avars, tvars, ivars, dvars>>

\* what the operations of one collection leave alone
notRatings == <<bvars, cvars, lvars, avars, tvars, ivars, dvars>>

notBookmarks == <<tool, rvars, cvars, lvars, avars, tvars, ivars, dvars>>

notComments == <<rvars, bvars, lvars, avars, tvars, ivars, dvars>>

notList == <<svars, rvars, bvars, cvars, avars, tvars, ivars, dvars>>

notAdmin == <<svars, rvars, bvars, cvars, lvars, tvars, ivars, dvars>>

notTools == <<rvars, bvars, cvars, lvars, avars, ivars, dvars>>

notImport == <<svars, rvars, bvars, cvars, lvars, avars, tvars, dvars>>

notLoader == <<svars, rvars, bvars, cvars, lvars, avars, tvars, ivars>>

----------------------------------------------------------------------------
(* Bounds of the model *)

\* operations started in one behaviour (each start ticks the clock)
MaxTime == 3

\* operations in flight at the same time
MaxInFlight == 2

\* bookmark toggles started in one behaviour
MaxToggles == 3

\* comment operations started in one behaviour
MaxCommentOps == 4

\* comment operations started in one behaviour of the edit flows
MaxEditOps == 3

\* the greatest comment id a caller of the hook names
MaxCommentId == 2

\* the wall clock runs from 0 to MaxWall
MaxWall == 3

\* the lifetime of an admin session (the source's four hours), in ticks of
\* the wall clock
SessionLifetime == 2

\* operations started in one behaviour of the ownership flows
MaxOwnerOps == 4

\* length of a tool list drawn from ToolPool
MaxTools == 3

\* length of the generated tool list (more than two full pages)
MaxItems == 81

\* the page the tool manager's "next" button can be pushed to
MaxAdminPage == 10

----------------------------------------------------------------------------
(* Users, sessions, the one tool *)

Users == {"u1", "u2"}

\* who created the tool document
ToolOwners == {"u1"}

ToolId == "t1"

\* client sessions (browser tabs) and the user signed in to each
RSessions == {"s1", "s2", "s3"}

RSessionUser(s) ==
    CASE s = "s1" -> "u1"
      [] s = "s2" -> "u2"
      [] s = "s3" -> "u1"

\* the rating values a caller passes, in tenths
RatingInputs == {0, 30, 40, 50}

NoReq == [kind |-> "none", id |-> 0, rating |-> 0]

\* a document id that names no rating document
MissingId == 0
NoSnap == [averageRating |-> 0, ratingCount |-> 0]

\* the ratings side before any rating operation
RatingsAtRest ==
    /\ ratings = {}
    /\ nextRatingId = 1
    /\ rdata = [s \in RSessions |-> {}]
    /\ rpc = [s \in RSessions |-> "idle"]
    /\ rreq = [s \in RSessions |-> NoReq]
    /\ rsnap = [s \in RSessions |-> NoSnap]
    /\ rresult = "none"

\* the selected category that stands for no category filter (the source's
\* Korean label for "all")
AllCategories == "ALL"

DefaultFilters == [freeOnly |-> FALSE, bookmarkedOnly |-> FALSE,
                   selectedCategory |-> AllCategories, searchTerm |-> <<>>]

\* the list pages before any tool is loaded or any control is used
ListAtRest ==
    /\ aiToolsData = <<>>
    /\ filters = DefaultFilters
    /\ sortOrder = "updated_desc"
    /\ currentPage = 1
    /\ isAuthenticated = FALSE
    /\ firebaseConfigured = TRUE
    /\ bookmarkedToolIds = {}
    /\ route = "main"
    /\ tmSearchTerm = <<>>
    /\ tmSelectedCategory = AllCategories
    /\ tmCurrentPage = 1

\* a text: its leading whitespace, its body (first to last character that is
\* not whitespace) and its trailing whitespace, each by its length
Text(lead, body, trail) == [lead |-> lead, body |-> body, trail |-> trail]

EmptyText == Text(0, 0, 0)

\* String.prototype.trim and String.prototype.length
Trim(text) == Text(0, text.body, 0)

Length(text) == text.lead + text.body + text.trail

NoCommentReq == [kind |-> "none", id |-> 0, parentId |-> 0, pending |-> {},
                 content |-> EmptyText]

\* the comments side before any comment operation; parentId 0 stands for null
CommentsAtRest ==
    /\ comments = {}
    /\ nextCommentId = 1
    /\ cdata = [s \in RSessions |-> {}]
    /\ cpc = [s \in RSessions |-> "idle"]
    /\ creq = [s \in RSessions |-> NoCommentReq]
    /\ cever = {}
    /\ cresult = "none"

\* localStorage holds no item 'adminSession'
NoSession == [kind |-> "absent", isAdmin |-> FALSE, expiresAt |-> 0]

\* the admin side with no admin page open and nobody logged in
AdminAtRest ==
    /\ adminSession = NoSession
    /\ wallClock = 0
    /\ adminRoute = "none"
    /\ adminIsAdmin = FALSE
    /\ adminIsLoading = FALSE

\* parseToolsFromJson has not been called
NoParse == [status |-> "none", validTools |-> <<>>, invalidEntries |-> <<>>]

\* no file chosen and no import running, over an empty tools collection
ImportAtRest ==
    /\ importFile = <<>>
    /\ parseResult = NoParse
    /\ importPc = "idle"
    /\ importMode = "append"
    /\ importLeft = 0
    /\ successCount = 0
    /\ failCount = 0
    /\ storedOld = 0
    /\ storedNew = 0
    /\ pendingCommits = <<>>
    /\ importAuth = "none"
    /\ oldCreator = "admin"

\* no query
NoQuery == [kind |-> "none", category |-> AllCategories, order |-> "none"]

\* no listener
NoSubscription == [gen |-> 0, query |-> NoQuery, state |-> "none", hadData |-> FALSE]

\* useTools as its useState calls leave it, before the loading effect runs
LoaderAtRest ==
    /\ loadGen = 0
    /\ hookCategory = AllCategories
    /\ hookSortOrder = "updated_desc"
    /\ toolsIsLoading = TRUE
    /\ toolsError = FALSE
    /\ toolsData = NoQuery
    /\ subscription = NoSubscription
    /\ fetches = {}

\* the tool document as created: no ratings yet; exists tells whether the
\* document is still stored
ToolAtRest ==
    /\ tool \in [createdBy : ToolOwners, averageRating : {0}, ratingCount : {0},
                 updatedAt : {0}, name : {"n0"}, exists : {TRUE}]
    /\ toolResult = "none"

----------------------------------------------------------------------------
(* Pure helpers *)

RECURSIVE SumRatings(_)
SumRatings(S) ==
    IF S = {} THEN 0
    ELSE LET r == CHOOSE x \in S : TRUE
         IN r.rating + SumRatings(S \ {r})

\* ratings.reduce(sum) / ratings.length, or 0 for no ratings; in tenths the
\* quotient is kept as the pair (sum, length)
\* Math.round(averageRating * 10) / 10: round half up, in tenths
RoundedAverage(S) ==
    IF Cardinality(S) > 0
    THEN (2 * SumRatings(S) + Cardinality(S)) \div (2 * Cardinality(S))
    ELSE 0

RatingsOfTool(t) == {r \in ratings : r.toolId = t}

\* firestore.rules, match /ratings/{ratingId}
RuleRatingCreate(uid, doc) ==
    /\ uid = doc.userId
    /\ doc.rating >= 5
    /\ doc.rating <= 50

RuleRatingUpdate(uid, old, rating) ==
    /\ uid = old.userId
    /\ rating >= 5
    /\ rating <= 50

RuleRatingDelete(uid, old) == uid = old.userId

\* a tools rule that lets every signed-in user update and delete
RuleToolUpdateAnyone(uid) == tool.exists

\* firestore.rules, match /tools/{toolId}: allow update, delete (resource
\* is the stored document: there is none once the tool is deleted)
RuleToolUpdate(uid) == tool.exists /\ uid = tool.createdBy


----------------------------------------------------------------------------
(* useBookmarks and the bookmark button of ToolCard *)

\* tool cards (one per browser tab showing the tool) and the user of each
Cards == {"c1", "c2", "c3"}

CardUser(c) ==
    CASE c = "c1" -> "u1"
      [] c = "c2" -> "u1"
      [] c = "c3" -> "u2"

NoPair == [stage |-> 0, card |-> "none", before |-> FALSE]

\* where('userId', '==', userId): the bookmarks a card's queries can see
BookmarksOfUser(u) == {b \in bookmarks : b.userId = u}

\* where('userId', '==', userId), where('toolId', '==', toolId)
BookmarksOfPair(u, t) == {b \in bookmarks : b.userId = u /\ b.toolId = t}

\* bookmarkedToolIds.includes(toolId)
Includes(data, t) == \E b \in data : b.toolId = t

\* firestore.rules, match /bookmarks/{bookmarkId}
RuleBookmarkCreate(uid, doc) == uid = doc.userId /\ doc.toolId # "null"

RuleBookmarkDelete(uid, old) == uid = old.userId

BookmarksAtRest ==
    /\ bookmarks = {}
    /\ nextBookmarkId = 1
    /\ bdata = [c \in Cards |-> {}]
    /\ bloading = [c \in Cards |-> TRUE]
    /\ isBookmarked = [c \in Cards |-> FALSE]
    /\ processing = [c \in Cards |-> FALSE]
    /\ bpc = [c \in Cards |-> "idle"]
    /\ bcap = [c \in Cards |-> FALSE]
    /\ bdoc = [c \in Cards |-> 0]
    /\ pair = NoPair

\* history of a watched pair of toggles when card c ends a toggle: the
\* watched card moves to the next stage; a store write of another card while
\* the pair runs spoils the pair (stage 5)
PairAfter(c, wrote) ==
    IF pair.card = c /\ pair.stage \in {1, 3}
    THEN [pair EXCEPT !.stage = @ + 1]
    ELSE IF wrote /\ pair.card # c /\ pair.stage \in {1, 2, 3}
    THEN [pair EXCEPT !.stage = 5]
    ELSE pair

\* the one-shot fetch and the onSnapshot listener of useBookmarks: data becomes
\* the user's bookmarks, isLoading false; the card's effect on
\* bookmarkedToolIds then sets isBookmarked
BookmarksLoaded(c) ==
    /\ bloading[c] \/ bdata[c] # BookmarksOfUser(CardUser(c))
    /\ bdata' = [bdata EXCEPT ![c] = BookmarksOfUser(CardUser(c))]
    /\ bloading' = [bloading EXCEPT ![c] = FALSE]
    /\ isBookmarked' = [isBookmarked EXCEPT ![c] = Includes(bdata'[c], ToolId)]
    /\ UNCHANGED <<now, bookmarks, nextBookmarkId, processing, bpc, bcap, bdoc, pair>>
    /\ UNCHANGED notBookmarks

\* handleBookmarkToggle without the look at isBookmarkProcessing: every click
\* starts addBookmark or removeBookmark
HandleBookmarkToggleUnguarded(c, watch) ==
    /\ ~bloading[c]
    /\ now < MaxToggles
    /\ now' = now + 1
    /\ processing' = [processing EXCEPT ![c] = TRUE]
    /\ bcap' = [bcap EXCEPT ![c] = isBookmarked[c]]
    /\ bpc' = [bpc EXCEPT ![c] = IF isBookmarked[c] THEN "rm_check" ELSE "add_check"]
    /\ pair' = IF watch /\ pair.stage = 0
               THEN [stage |-> 1, card |-> c,
                     before |-> BookmarksOfPair(CardUser(c), ToolId) # {}]
               ELSE IF pair.stage = 2 /\ pair.card = c
               THEN [pair EXCEPT !.stage = 3]
               ELSE pair
    /\ (watch => pair.stage = 0)
    /\ UNCHANGED <<bookmarks, nextBookmarkId, bdata, bloading, isBookmarked, bdoc>>
    /\ UNCHANGED notBookmarks

\* handleBookmarkToggle up to its first await; the button is disabled while
\* the bookmarks load.  watch: whether the history starts following this card
HandleBookmarkToggle(c, watch) ==
    /\ ~bloading[c]
    /\ IF processing[c]
       THEN /\ watch = FALSE
            /\ UNCHANGED <<now, processing, bpc, bcap, pair>>
       ELSE /\ now < MaxToggles
            /\ now' = now + 1
            /\ processing' = [processing EXCEPT ![c] = TRUE]
            /\ bcap' = [bcap EXCEPT ![c] = isBookmarked[c]]
            /\ bpc' = [bpc EXCEPT ![c] = IF isBookmarked[c] THEN "rm_check" ELSE "add_check"]
            /\ pair' = IF watch /\ pair.stage = 0
                       THEN [stage |-> 1, card |-> c,
                             before |-> BookmarksOfPair(CardUser(c), ToolId) # {}]
                       ELSE IF pair.stage = 2 /\ pair.card = c
                       THEN [pair EXCEPT !.stage = 3]
                       ELSE pair
            /\ (watch => pair.stage = 0)
    /\ UNCHANGED <<bookmarks, nextBookmarkId, bdata, bloading, isBookmarked, bdoc>>
    /\ UNCHANGED notBookmarks

\* the rest of handleBookmarkToggle after addBookmark / removeBookmark returned
ToggleDone(c) ==
    /\ isBookmarked' = [isBookmarked EXCEPT ![c] = ~bcap[c]]
    /\ processing' = [processing EXCEPT ![c] = FALSE]
    /\ bpc' = [bpc EXCEPT ![c] = "idle"]

\* the catch and finally of handleBookmarkToggle after a throw
ToggleFailed(c) ==
    /\ processing' = [processing EXCEPT ![c] = FALSE]
    /\ bpc' = [bpc EXCEPT ![c] = "idle"]
    /\ UNCHANGED isBookmarked

\* addBookmark, first await: the duplicate check
AddBookmarkCheck(c) ==
    /\ bpc[c] = "add_check"
    /\ IF BookmarksOfPair(CardUser(c), ToolId) # {}
       THEN /\ ToggleDone(c)
            /\ pair' = PairAfter(c, FALSE)
       ELSE /\ bpc' = [bpc EXCEPT ![c] = "add_write"]
            /\ UNCHANGED <<isBookmarked, processing, pair>>
    /\ UNCHANGED <<now, bookmarks, nextBookmarkId, bdata, bloading, bcap, bdoc>>
    /\ UNCHANGED notBookmarks

\* addBookmark, second await: addDoc, then setData([new, ...prev])
AddBookmarkWrite(c) ==
    /\ bpc[c] = "add_write"
    /\ LET doc == [id |-> nextBookmarkId, userId |-> CardUser(c), toolId |-> ToolId]
       IN IF RuleBookmarkCreate(CardUser(c), doc)
          THEN /\ bookmarks' = bookmarks \cup {doc}
               /\ nextBookmarkId' = nextBookmarkId + 1
               /\ bdata' = [bdata EXCEPT ![c] = @ \cup {doc}]
               /\ ToggleDone(c)
               /\ pair' = PairAfter(c, TRUE)
          ELSE /\ ToggleFailed(c)
               /\ pair' = PairAfter(c, FALSE)
               /\ UNCHANGED <<bookmarks, nextBookmarkId, bdata>>
    /\ UNCHANGED <<now, bloading, bcap, bdoc>>
    /\ UNCHANGED notBookmarks

\* removeBookmark, first await: the query with limit(1)
RemoveBookmarkCheck(c) ==
    /\ bpc[c] = "rm_check"
    /\ IF BookmarksOfPair(CardUser(c), ToolId) = {}
       THEN /\ ToggleDone(c)
            /\ pair' = PairAfter(c, FALSE)
            /\ UNCHANGED bdoc
       ELSE /\ \E b \in BookmarksOfPair(CardUser(c), ToolId) :
                  bdoc' = [bdoc EXCEPT ![c] = b.id]
            /\ bpc' = [bpc EXCEPT ![c] = "rm_write"]
            /\ UNCHANGED <<isBookmarked, processing, pair>>
    /\ UNCHANGED <<now, bookmarks, nextBookmarkId, bdata, bloading, bcap>>
    /\ UNCHANGED notBookmarks

\* removeBookmark, second await: deleteDoc, then setData(filter).  The rules
\* reject the delete of a document that is no longer there.
RemoveBookmarkWrite(c) ==
    /\ bpc[c] = "rm_write"
    /\ LET hit == {b \in bookmarks : b.id = bdoc[c]}
       IN IF hit # {} /\ \A old \in hit : RuleBookmarkDelete(CardUser(c), old)
          THEN /\ bookmarks' = bookmarks \ hit
               /\ bdata' = [bdata EXCEPT ![c] = {b \in @ : b.toolId # ToolId}]
               /\ ToggleDone(c)
               /\ pair' = PairAfter(c, TRUE)
          ELSE /\ ToggleFailed(c)
               /\ pair' = PairAfter(c, FALSE)
               /\ UNCHANGED <<bookmarks, bdata>>
    /\ bdoc' = [bdoc EXCEPT ![c] = 0]
    /\ UNCHANGED <<now, nextBookmarkId, bloading, bcap>>
    /\ UNCHANGED notBookmarks

InitBookmarks ==
    /\ ListAtRest
    /\ BookmarksAtRest
    /\ RatingsAtRest
    /\ CommentsAtRest
    /\ ImportAtRest
    /\ LoaderAtRest
    /\ AdminAtRest
    /\ now = 0
    /\ ToolAtRest

NextBookmarks ==
    \/ \E c \in Cards : BookmarksLoaded(c)
    \/ \E c \in Cards, watch \in BOOLEAN : HandleBookmarkToggle(c, watch)
    \/ \E c \in Cards : AddBookmarkCheck(c)
    \/ \E c \in Cards : AddBookmarkWrite(c)
    \/ \E c \in Cards : RemoveBookmarkCheck(c)
    \/ \E c \in Cards : RemoveBookmarkWrite(c)

SpecBookmarks == InitBookmarks /\ [][NextBookmarks]_vars

----------------------------------------------------------------------------
(* useRatings *)

RBusy == {o \in RSessions : rpc[o] # "idle"}

\* the rating ids a session can name: those it holds in data, or a stale one
RKnownIds(s) == {r.id : r \in rdata[s]} \cup {MissingId}

\* the common start of an operation: the clock ticks
RStart(s) ==
    /\ rpc[s] = "idle"
    /\ now < MaxTime
    /\ Cardinality(RBusy) < MaxInFlight
    /\ now' = now + 1

\* a store call throws: the catch rethrows the store's message
RFail(s) ==
    /\ rpc' = [rpc EXCEPT ![s] = "idle"]
    /\ rreq' = [rreq EXCEPT ![s] = NoReq]
    /\ rresult' = "error"

\* the handler throws one of its own messages before any store call:
\* "invalid" is the range message, "duplicate" the already-rated message
RThrow(s, message) ==
    /\ rpc' = [rpc EXCEPT ![s] = "idle"]
    /\ rreq' = [rreq EXCEPT ![s] = NoReq]
    /\ rresult' = message

\* addRating without its range check
AddRatingUnchecked(s, rating) ==
    /\ RStart(s)
    /\ IF \E r \in rdata[s] : r.userId = RSessionUser(s)
       THEN RThrow(s, "duplicate")
       ELSE /\ rpc' = [rpc EXCEPT ![s] = "write"]
            /\ rreq' = [rreq EXCEPT ![s] = [kind |-> "add", id |-> 0, rating |-> rating]]
            /\ UNCHANGED rresult
    /\ UNCHANGED <<tool, ratings, nextRatingId, rdata, rsnap>>
    /\ UNCHANGED notRatings

\* addRating up to its first await (validation, duplicate check on data)
AddRating(s, rating) ==
    /\ RStart(s)
    /\ IF rating < 5 \/ rating > 50
       THEN RThrow(s, "invalid")
       ELSE IF \E r \in rdata[s] : r.userId = RSessionUser(s)
       THEN RThrow(s, "duplicate")
       ELSE /\ rpc' = [rpc EXCEPT ![s] = "write"]
            /\ rreq' = [rreq EXCEPT ![s] = [kind |-> "add", id |-> 0, rating |-> rating]]
            /\ UNCHANGED rresult
    /\ UNCHANGED <<tool, ratings, nextRatingId, rdata, rsnap>>
    /\ UNCHANGED notRatings

\* updateRating up to its first await (validation only)
UpdateRating(s, ratingId, rating) ==
    /\ RStart(s)
    /\ IF rating < 5 \/ rating > 50
       THEN RThrow(s, "invalid")
       ELSE /\ rpc' = [rpc EXCEPT ![s] = "write"]
            /\ rreq' = [rreq EXCEPT ![s] = [kind |-> "update", id |-> ratingId, rating |-> rating]]
            /\ UNCHANGED rresult
    /\ UNCHANGED <<tool, ratings, nextRatingId, rdata, rsnap>>
    /\ UNCHANGED notRatings

\* deleteRating up to its first await
DeleteRating(s, ratingId) ==
    /\ RStart(s)
    /\ rpc' = [rpc EXCEPT ![s] = "write"]
    /\ rreq' = [rreq EXCEPT ![s] = [kind |-> "delete", id |-> ratingId, rating |-> 0]]
    /\ UNCHANGED rresult
    /\ UNCHANGED <<tool, ratings, nextRatingId, rdata, rsnap>>
    /\ UNCHANGED notRatings

\* the rating write reaches the store: addDoc / updateDoc / deleteDoc under
\* the security rules.  A rejected write throws: the handler's catch rethrows
\* and the recompute step is skipped.  The writer's own onSnapshot listener
\* shows its write at once (the SDK's local view); other sessions see it when
\* their listener fires (RatingsSnapshot).
RatingWriteOk(s) ==
    /\ rpc' = [rpc EXCEPT ![s] = "read"]
    /\ UNCHANGED <<rreq, rresult>>

RatingWrite(s) ==
    /\ rpc[s] = "write"
    /\ LET uid == RSessionUser(s)
           q == rreq[s]
           hit == {r \in ratings : r.id = q.id}
       IN CASE q.kind = "add" ->
                 LET doc == [id |-> nextRatingId, toolId |-> ToolId,
                             userId |-> uid, rating |-> q.rating]
                 IN IF RuleRatingCreate(uid, doc)
                    THEN /\ ratings' = ratings \cup {doc}
                         /\ nextRatingId' = nextRatingId + 1
                         /\ rdata' = [rdata EXCEPT ![s] = @ \cup {doc}]
                         /\ RatingWriteOk(s)
                    ELSE /\ RFail(s)
                         /\ UNCHANGED <<ratings, nextRatingId, rdata>>
            [] q.kind = "update" ->
                 IF hit # {} /\ \A old \in hit : RuleRatingUpdate(uid, old, q.rating)
                 THEN /\ ratings' = (ratings \ hit) \cup
                                    {[old EXCEPT !.rating = q.rating] : old \in hit}
                      /\ rdata' = [rdata EXCEPT ![s] =
                                     {IF r.id = q.id THEN [r EXCEPT !.rating = q.rating]
                                      ELSE r : r \in @}]
                      /\ RatingWriteOk(s)
                      /\ UNCHANGED nextRatingId
                 ELSE /\ RFail(s)
                      /\ UNCHANGED <<ratings, nextRatingId, rdata>>
            [] q.kind = "delete" ->
                 IF hit # {} /\ \A old \in hit : RuleRatingDelete(uid, old)
                 THEN /\ ratings' = ratings \ hit
                      /\ rdata' = [rdata EXCEPT ![s] = {r \in @ : r.id # q.id}]
                      /\ RatingWriteOk(s)
                      /\ UNCHANGED nextRatingId
                 ELSE /\ RFail(s)
                      /\ UNCHANGED <<ratings, nextRatingId, rdata>>
    /\ UNCHANGED <<now, tool, rsnap>>
    /\ UNCHANGED notRatings

\* updateToolAverageRating, first await: getDocs of the tool's ratings, then
\* the average and the count are computed from that snapshot
RecomputeRead(s) ==
    /\ rpc[s] = "read"
    /\ rsnap' = [rsnap EXCEPT ![s] =
                    [averageRating |-> RoundedAverage(RatingsOfTool(ToolId)),
                     ratingCount |-> Cardinality(RatingsOfTool(ToolId))]]
    /\ rpc' = [rpc EXCEPT ![s] = "update"]
    /\ UNCHANGED <<now, tool, ratings, nextRatingId, rdata, rreq, rresult>>
    /\ UNCHANGED notRatings

\* updateToolAverageRating with a catch that rethrows
RecomputeWriteRethrows(s) ==
    /\ rpc[s] = "update"
    /\ IF RuleToolUpdate(RSessionUser(s))
       THEN /\ tool' = [tool EXCEPT !.averageRating = rsnap[s].averageRating,
                                    !.ratingCount = rsnap[s].ratingCount,
                                    !.updatedAt = now]
            /\ rresult' = "ok"
       ELSE /\ UNCHANGED tool
            /\ rresult' = "error"
    /\ rpc' = [rpc EXCEPT ![s] = "idle"]
    /\ rreq' = [rreq EXCEPT ![s] = NoReq]
    /\ rsnap' = [rsnap EXCEPT ![s] = NoSnap]
    /\ UNCHANGED <<now, ratings, nextRatingId, rdata>>
    /\ UNCHANGED notRatings

\* updateToolAverageRating, second await: updateDoc of the tool document.  A
\* write the rules reject is caught and logged, never rethrown.
RecomputeWrite(s) ==
    /\ rpc[s] = "update"
    /\ IF RuleToolUpdate(RSessionUser(s))
       THEN tool' = [tool EXCEPT !.averageRating = rsnap[s].averageRating,
                                 !.ratingCount = rsnap[s].ratingCount,
                                 !.updatedAt = now]
       ELSE UNCHANGED tool
    /\ rpc' = [rpc EXCEPT ![s] = "idle"]
    /\ rreq' = [rreq EXCEPT ![s] = NoReq]
    /\ rsnap' = [rsnap EXCEPT ![s] = NoSnap]
    /\ rresult' = "ok"
    /\ UNCHANGED <<now, ratings, nextRatingId, rdata>>
    /\ UNCHANGED notRatings

\* onSnapshot listener of useRatings: data becomes the tool's ratings
RatingsSnapshot(s) ==
    /\ rdata[s] # RatingsOfTool(ToolId)
    /\ rdata' = [rdata EXCEPT ![s] = RatingsOfTool(ToolId)]
    /\ UNCHANGED <<now, tool, ratings, nextRatingId, rpc, rreq, rsnap, rresult>>
    /\ UNCHANGED notRatings

InitRatings ==
    /\ ListAtRest
    /\ BookmarksAtRest
    /\ RatingsAtRest
    /\ CommentsAtRest
    /\ ImportAtRest
    /\ LoaderAtRest
    /\ AdminAtRest
    /\ now = 0
    /\ ToolAtRest

NextRatings ==
    \/ \E s \in RSessions, v \in RatingInputs : AddRating(s, v)
    \/ \E s \in RSessions, v \in RatingInputs : \E i \in RKnownIds(s) : UpdateRating(s, i, v)
    \/ \E s \in RSessions : \E i \in RKnownIds(s) : DeleteRating(s, i)
    \/ \E s \in RSessions : RatingWrite(s)
    \/ \E s \in RSessions : RecomputeRead(s)
    \/ \E s \in RSessions : RecomputeWrite(s)
    \/ \E s \in RSessions : RatingsSnapshot(s)

SpecRatings == InitRatings /\ [][NextRatings]_vars

\* the same operations performed one at a time: an operation starts only
\* when no other is between its start and the end of its recompute step
NextRatingsSeq ==
    \/ \E s \in RSessions, v \in RatingInputs : RBusy = {} /\ AddRating(s, v)
    \/ \E s \in RSessions, v \in RatingInputs : \E i \in RKnownIds(s) :
          RBusy = {} /\ UpdateRating(s, i, v)
    \/ \E s \in RSessions : \E i \in RKnownIds(s) : RBusy = {} /\ DeleteRating(s, i)
    \/ \E s \in RSessions : RatingWrite(s)
    \/ \E s \in RSessions : RecomputeRead(s)
    \/ \E s \in RSessions : RecomputeWrite(s)
    \/ \E s \in RSessions : RatingsSnapshot(s)

SpecRatingsSeq == InitRatings /\ [][NextRatingsSeq]_vars

\* the rating values probed at and around the limits of the range, in
\* tenths: 0, 0.5, 3.3, 5.0 and 5.5
RatingProbes == {0, 5, 33, 50, 55}

\* one operation at a time, called with the probe values
NextRatingValues ==
    \/ \E s \in RSessions, v \in RatingProbes : RBusy = {} /\ AddRating(s, v)
    \/ \E s \in RSessions, v \in RatingProbes : \E i \in RKnownIds(s) :
          RBusy = {} /\ UpdateRating(s, i, v)
    \/ \E s \in RSessions : \E i \in RKnownIds(s) : RBusy = {} /\ DeleteRating(s, i)
    \/ \E s \in RSessions : RatingWrite(s)
    \/ \E s \in RSessions : RecomputeRead(s)
    \/ \E s \in RSessions : RecomputeWrite(s)
    \/ \E s \in RSessions : RatingsSnapshot(s)

SpecRatingValues == InitRatings /\ [][NextRatingValues]_vars

----------------------------------------------------------------------------
(* useComments and the comment handlers of ReviewModal *)

CBusy == {o \in RSessions : cpc[o] # "idle"}

\* parentComments: the comments of data whose parentId is null
ParentComments(data) == {c \in data : c.parentId = 0}

\* getReplies(parentId) over data
GetReplies(data, parentId) == {c \in data : c.parentId = parentId}

\* the least id of a set of ids: data is kept in creation order, and ids are
\* given in creation order
MinId(S) == CHOOSE i \in S : \A j \in S : i <= j

\* firestore.rules, match /comments/{commentId}
MAX_COMMENT_LENGTH == 1000

RuleCommentCreate(uid, doc) ==
    /\ uid = doc.userId
    /\ Length(doc.content) > 0
    /\ Length(doc.content) <= MAX_COMMENT_LENGTH

RuleCommentUpdate(uid, old, content) ==
    /\ uid = old.userId
    /\ Length(content) > 0
    /\ Length(content) <= MAX_COMMENT_LENGTH

RuleCommentDelete(uid, old) == uid = old.userId

CStart(s) ==
    /\ cpc[s] = "idle"
    /\ now < MaxCommentOps
    /\ Cardinality(CBusy) < MaxInFlight
    /\ now' = now + 1

\* a store call throws: the catch rethrows the store's message
CFail(s) ==
    /\ cpc' = [cpc EXCEPT ![s] = "idle"]
    /\ creq' = [creq EXCEPT ![s] = NoCommentReq]
    /\ cresult' = "error"

\* the hook throws one of its own messages before any store call: "empty",
\* "too_long" or "not_found"
CThrow(s, message) ==
    /\ cpc' = [cpc EXCEPT ![s] = "idle"]
    /\ creq' = [creq EXCEPT ![s] = NoCommentReq]
    /\ cresult' = message

\* user.displayName of the signed-in user
UserName(u) == <<"name", u>>

\* addComment without its validation of the content
AddCommentUnchecked(s, content, parentId) ==
    /\ CStart(s)
    /\ cpc' = [cpc EXCEPT ![s] = "add"]
    /\ creq' = [creq EXCEPT ![s] = [NoCommentReq EXCEPT !.kind = "add",
                                                        !.parentId = parentId,
                                                        !.content = Trim(content)]]
    /\ UNCHANGED cresult
    /\ UNCHANGED <<tool, comments, nextCommentId, cdata, cever>>
    /\ UNCHANGED notComments

\* addComment up to its first await: the content is validated, then the new
\* document is built (content: content.trim(), parentId: parentId || null)
AddComment(s, content, parentId) ==
    /\ CStart(s)
    /\ IF Length(Trim(content)) = 0
       THEN CThrow(s, "empty")
       ELSE IF Length(content) > MAX_COMMENT_LENGTH
       THEN CThrow(s, "too_long")
       ELSE /\ cpc' = [cpc EXCEPT ![s] = "add"]
            /\ creq' = [creq EXCEPT ![s] = [NoCommentReq EXCEPT !.kind = "add",
                                                                !.parentId = parentId,
                                                                !.content = Trim(content)]]
            /\ UNCHANGED cresult
    /\ UNCHANGED <<tool, comments, nextCommentId, cdata, cever>>
    /\ UNCHANGED notComments

\* handleCommentSubmit: nothing happens for a text that trims to nothing;
\* otherwise addComment is called with the trimmed text and no parentId
HandleCommentSubmit(s, text) ==
    /\ Length(Trim(text)) # 0
    /\ AddComment(s, Trim(text), 0)

\* every rendered comment, replies included
AllCommentTargets(s) == {c.id : c \in cdata[s]}

\* the reply button is rendered only on a CommentItem that is not a reply
\* (!isReply), and CommentItem is rendered without isReply only for the
\* members of parentComments
ReplyTargets(s) == {c.id : c \in ParentComments(cdata[s])}

\* handleReplySubmit(comment.id) and addComment up to its first await
HandleReplySubmit(s, parentId, text) ==
    /\ parentId \in ReplyTargets(s)
    /\ Length(Trim(text)) # 0
    /\ AddComment(s, Trim(text), parentId)

\* addComment, first await: addDoc under the create rule.  The writer's own
\* listener shows the new comment at once.
CommentAddWrite(s) ==
    /\ cpc[s] = "add"
    /\ LET doc == [id |-> nextCommentId, toolId |-> ToolId,
                   userId |-> RSessionUser(s),
                   userName |-> UserName(RSessionUser(s)),
                   content |-> creq[s].content,
                   parentId |-> creq[s].parentId,
                   createdAt |-> now, updatedAt |-> now]
       IN IF RuleCommentCreate(RSessionUser(s), doc)
          THEN /\ comments' = comments \cup {doc}
               /\ cever' = cever \cup {doc}
               /\ nextCommentId' = nextCommentId + 1
               /\ cdata' = [cdata EXCEPT ![s] = @ \cup {doc}]
               /\ cpc' = [cpc EXCEPT ![s] = "touch"]
               /\ UNCHANGED <<creq, cresult>>
          ELSE /\ CFail(s)
               /\ UNCHANGED <<comments, cever, nextCommentId, cdata>>
    /\ UNCHANGED <<now, tool>>
    /\ UNCHANGED notComments

\* updateToolUpdatedAt: updateDoc of the tool document; a rejected write is
\* caught and logged, never rethrown
UpdateToolUpdatedAt(s) ==
    /\ cpc[s] = "touch"
    /\ IF RuleToolUpdate(RSessionUser(s))
       THEN tool' = [tool EXCEPT !.updatedAt = now]
       ELSE UNCHANGED tool
    /\ cpc' = [cpc EXCEPT ![s] = "idle"]
    /\ creq' = [creq EXCEPT ![s] = NoCommentReq]
    /\ cresult' = "ok"
    /\ UNCHANGED <<now, comments, nextCommentId, cdata, cever>>
    /\ UNCHANGED notComments

\* the delete button is rendered only on the user's own comments
DeleteTargets(s) == {c.id : c \in {d \in cdata[s] : d.userId = RSessionUser(s)}}

\* the ids of the comments held in data
LocalCommentIds(s) == {c.id : c \in cdata[s]}

\* deleteComment up to its first await: the comment is looked up in data,
\* and its replies are taken from data
DeleteComment(s, commentId) ==
    /\ CStart(s)
    /\ IF commentId \notin LocalCommentIds(s)
       THEN CThrow(s, "not_found")
       ELSE LET replies == {c.id : c \in GetReplies(cdata[s], commentId)}
            IN /\ creq' = [creq EXCEPT ![s] = [NoCommentReq EXCEPT !.kind = "delete",
                                                                !.id = commentId,
                                                                !.pending = replies]]
               /\ cpc' = [cpc EXCEPT ![s] = IF replies = {} THEN "del_comment"
                                            ELSE "del_replies"]
               /\ UNCHANGED cresult
    /\ UNCHANGED <<tool, comments, nextCommentId, cdata, cever>>
    /\ UNCHANGED notComments

\* handleCommentDelete(comment.id), from the delete button of a comment
HandleCommentDelete(s, commentId) ==
    /\ commentId \in DeleteTargets(s)
    /\ DeleteComment(s, commentId)

\* updateComment without the lookup of the comment in data
UpdateCommentUnchecked(s, commentId, content) ==
    /\ CStart(s)
    /\ IF Length(Trim(content)) = 0
       THEN CThrow(s, "empty")
       ELSE IF Length(content) > MAX_COMMENT_LENGTH
       THEN CThrow(s, "too_long")
       ELSE /\ cpc' = [cpc EXCEPT ![s] = "edit"]
            /\ creq' = [creq EXCEPT ![s] = [NoCommentReq EXCEPT !.kind = "edit",
                                                                !.id = commentId,
                                                                !.content = Trim(content)]]
            /\ UNCHANGED cresult
    /\ UNCHANGED <<tool, comments, nextCommentId, cdata, cever>>
    /\ UNCHANGED notComments

\* updateComment up to its first await: the content is validated, then the
\* comment is looked up in data
UpdateComment(s, commentId, content) ==
    /\ CStart(s)
    /\ IF Length(Trim(content)) = 0
       THEN CThrow(s, "empty")
       ELSE IF Length(content) > MAX_COMMENT_LENGTH
       THEN CThrow(s, "too_long")
       ELSE IF commentId \notin LocalCommentIds(s)
       THEN CThrow(s, "not_found")
       ELSE /\ cpc' = [cpc EXCEPT ![s] = "edit"]
            /\ creq' = [creq EXCEPT ![s] = [NoCommentReq EXCEPT !.kind = "edit",
                                                                !.id = commentId,
                                                                !.content = Trim(content)]]
            /\ UNCHANGED cresult
    /\ UNCHANGED <<tool, comments, nextCommentId, cdata, cever>>
    /\ UNCHANGED notComments

\* the edit button is rendered only on the user's own comments
EditTargets(s) == {c.id : c \in {d \in cdata[s] : d.userId = RSessionUser(s)}}

\* handleCommentEdit(comment.id): nothing happens for a text that trims to
\* nothing; otherwise updateComment is called with the trimmed text
HandleCommentEdit(s, commentId, text) ==
    /\ commentId \in EditTargets(s)
    /\ Length(Trim(text)) # 0
    /\ UpdateComment(s, commentId, Trim(text))

\* the stored comment after updateDoc(commentDoc, {content, updatedAt}) that
\* also rewrites the author and the parent
EditedAll(old, content, uid, time) ==
    [old EXCEPT !.content = content, !.updatedAt = time, !.userId = uid,
                !.userName = UserName(uid), !.parentId = 0]

\* the stored comment after updateDoc(commentDoc, {content, updatedAt})
Edited(old, content, uid, time) ==
    [old EXCEPT !.content = content, !.updatedAt = time]

\* updateComment, first await: updateDoc under the update rule; a comment
\* that is no longer stored cannot be updated.  The writer's own listener
\* shows the change at once.
CommentUpdateWrite(s) ==
    /\ cpc[s] = "edit"
    /\ LET uid == RSessionUser(s)
           hit == {c \in comments : c.id = creq[s].id}
       IN IF hit # {} /\ \A old \in hit : RuleCommentUpdate(uid, old, creq[s].content)
          THEN /\ comments' = (comments \ hit) \cup
                                {Edited(old, creq[s].content, uid, now) : old \in hit}
               /\ cdata' = [cdata EXCEPT ![s] =
                              {IF c.id = creq[s].id
                               THEN Edited(c, creq[s].content, uid, now)
                               ELSE c : c \in @}]
               /\ cpc' = [cpc EXCEPT ![s] = "touch"]
               /\ UNCHANGED <<creq, cresult>>
          ELSE /\ CFail(s)
               /\ UNCHANGED <<comments, cdata>>
    /\ UNCHANGED <<now, tool, nextCommentId, cever>>
    /\ UNCHANGED notComments

\* deleteComment, the loop over replies: one deleteDoc per step.  The rules
\* reject the delete of another user's comment and of a comment that is no
\* longer stored; deleteComment then throws and deletes nothing more.
DeleteReplyWrite(s) ==
    /\ cpc[s] = "del_replies"
    /\ LET rid == MinId(creq[s].pending)
           hit == {c \in comments : c.id = rid}
       IN IF hit # {} /\ \A old \in hit : RuleCommentDelete(RSessionUser(s), old)
          THEN /\ comments' = comments \ hit
               /\ cdata' = [cdata EXCEPT ![s] = {c \in @ : c.id # rid}]
               /\ creq' = [creq EXCEPT ![s].pending = @ \ {rid}]
               /\ cpc' = [cpc EXCEPT ![s] = IF creq[s].pending = {rid}
                                            THEN "del_comment" ELSE "del_replies"]
               /\ UNCHANGED cresult
          ELSE /\ CFail(s)
               /\ UNCHANGED <<comments, cdata>>
    /\ UNCHANGED <<now, tool, nextCommentId, cever>>
    /\ UNCHANGED notComments

\* deleteComment, after the loop: deleteDoc of the comment itself
DeleteCommentWrite(s) ==
    /\ cpc[s] = "del_comment"
    /\ LET hit == {c \in comments : c.id = creq[s].id}
       IN IF hit # {} /\ \A old \in hit : RuleCommentDelete(RSessionUser(s), old)
          THEN /\ comments' = comments \ hit
               /\ cdata' = [cdata EXCEPT ![s] = {c \in @ : c.id # creq[s].id}]
               /\ cpc' = [cpc EXCEPT ![s] = "touch"]
               /\ UNCHANGED <<creq, cresult>>
          ELSE /\ CFail(s)
               /\ UNCHANGED <<comments, cdata>>
    /\ UNCHANGED <<now, tool, nextCommentId, cever>>
    /\ UNCHANGED notComments

\* onSnapshot listener of useComments: data becomes the tool's comments
CommentsSnapshot(s) ==
    /\ cdata[s] # comments
    /\ cdata' = [cdata EXCEPT ![s] = comments]
    /\ UNCHANGED <<now, tool, comments, nextCommentId, cpc, creq, cever, cresult>>
    /\ UNCHANGED notComments

\* the text typed where the content plays no part
PlainText == Text(0, 3, 0)

InitComments ==
    /\ ListAtRest
    /\ BookmarksAtRest
    /\ RatingsAtRest
    /\ CommentsAtRest
    /\ ImportAtRest
    /\ LoaderAtRest
    /\ AdminAtRest
    /\ now = 0
    /\ ToolAtRest

NextComments ==
    \/ \E s \in RSessions : HandleCommentSubmit(s, PlainText)
    \/ \E s \in RSessions : \E p \in ReplyTargets(s) : HandleReplySubmit(s, p, PlainText)
    \/ \E s \in RSessions : \E i \in DeleteTargets(s) : HandleCommentDelete(s, i)
    \/ \E s \in RSessions : CommentAddWrite(s)
    \/ \E s \in RSessions : UpdateToolUpdatedAt(s)
    \/ \E s \in RSessions : DeleteReplyWrite(s)
    \/ \E s \in RSessions : DeleteCommentWrite(s)
    \/ \E s \in RSessions : CommentsSnapshot(s)

SpecComments == InitComments /\ [][NextComments]_vars

\* the same operations performed one at a time: an operation starts only
\* when no other comment operation is in flight
NextCommentsSeq ==
    \/ \E s \in RSessions : CBusy = {} /\ HandleCommentSubmit(s, PlainText)
    \/ \E s \in RSessions : \E p \in ReplyTargets(s) :
          CBusy = {} /\ HandleReplySubmit(s, p, PlainText)
    \/ \E s \in RSessions : \E i \in DeleteTargets(s) :
          CBusy = {} /\ HandleCommentDelete(s, i)
    \/ \E s \in RSessions : CommentAddWrite(s)
    \/ \E s \in RSessions : UpdateToolUpdatedAt(s)
    \/ \E s \in RSessions : DeleteReplyWrite(s)
    \/ \E s \in RSessions : DeleteCommentWrite(s)
    \/ \E s \in RSessions : CommentsSnapshot(s)

SpecCommentsSeq == InitComments /\ [][NextCommentsSeq]_vars

\* the texts typed into the comment, reply and edit boxes, and the contents
\* passed to addComment and updateComment: empty, whitespace only, short
\* with whitespace around it, of the greatest length, one longer, and one
\* longer only by its trailing whitespace
ContentInputs == {EmptyText, Text(2, 0, 0), Text(1, 3, 1),
                  Text(0, MAX_COMMENT_LENGTH, 0), Text(0, MAX_COMMENT_LENGTH + 1, 0),
                  Text(0, MAX_COMMENT_LENGTH - 1, 2)}

\* the sessions that take part in the edit flows: one of each user
EditSessions == {"s1", "s2"}

\* the comment ids a caller of the hook can name
CommentIdInputs == 0..MaxCommentId

\* a new operation of the edit flows may start: none is in flight, and fewer
\* than MaxEditOps were started
EditIdle == CBusy = {} /\ now < MaxEditOps

\* one operation at a time, through the handlers of ReviewModal and through
\* the functions of the hook
NextCommentEdit ==
    \/ \E s \in EditSessions, t \in ContentInputs : EditIdle /\ HandleCommentSubmit(s, t)
    \/ \E s \in EditSessions, t \in ContentInputs : \E p \in ReplyTargets(s) :
          EditIdle /\ HandleReplySubmit(s, p, t)
    \/ \E s \in EditSessions, t \in ContentInputs : \E i \in EditTargets(s) :
          EditIdle /\ HandleCommentEdit(s, i, t)
    \/ \E s \in EditSessions : \E i \in DeleteTargets(s) :
          EditIdle /\ HandleCommentDelete(s, i)
    \/ \E s \in EditSessions, t \in ContentInputs, p \in CommentIdInputs :
          EditIdle /\ AddComment(s, t, p)
    \/ \E s \in EditSessions, t \in ContentInputs, i \in CommentIdInputs :
          EditIdle /\ UpdateComment(s, i, t)
    \/ \E s \in EditSessions, i \in CommentIdInputs : EditIdle /\ DeleteComment(s, i)
    \/ \E s \in EditSessions : CommentAddWrite(s)
    \/ \E s \in EditSessions : CommentUpdateWrite(s)
    \/ \E s \in EditSessions : UpdateToolUpdatedAt(s)
    \/ \E s \in EditSessions : DeleteReplyWrite(s)
    \/ \E s \in EditSessions : DeleteCommentWrite(s)
    \/ \E s \in EditSessions : CommentsSnapshot(s)

SpecCommentEdit == InitComments /\ [][NextCommentEdit]_vars

----------------------------------------------------------------------------
(* The list pipeline of AppContent: filter, sort, paginate *)

\* the plan value the free-only filter keeps (the source's Korean label for
\* "free"); "null" stands for plan: null
FreePlan == "FREE"

ITEMS_PER_PAGE == 40

Categories == {"c1", "c2"}

CategoryInputs == {AllCategories} \cup Categories

SearchInputs == {<<>>, <<"a">>, <<"A", "B">>, <<"c">>}

SortOptions == {"rating_desc", "rating_asc", "name_asc", "name_desc",
                "created_desc", "created_asc", "updated_desc", "updated_asc"}

\* String.prototype.toLowerCase, letter by letter
LowerChar(ch) ==
    CASE ch = "A" -> "a"
      [] ch = "B" -> "b"
      [] ch = "C" -> "c"
      [] OTHER -> ch

ToLowerCase(str) == [i \in 1..Len(str) |-> LowerChar(str[i])]

\* String.prototype.includes
StrIncludes(str, term) ==
    \E k \in 0..(Len(str) - Len(term)) :
        \A i \in 1..Len(term) : str[k + i] = term[i]

\* the four filter predicates of filteredAndSortedTools
CategoryMatch(t, f) == t.category = f.selectedCategory

SearchMatch(t, term) ==
    \/ StrIncludes(ToLowerCase(t.name), ToLowerCase(term))
    \/ StrIncludes(ToLowerCase(t.description), ToLowerCase(term))

FreeMatch(t) == t.plan = FreePlan

BookmarkMatch(t) == t.id \in bookmarkedToolIds

\* Array.prototype.filter
Filter(list, Keep(_)) == SelectSeq(list, Keep)

\* the steps of filteredAndSortedTools, each on the list the step before left
AfterCategory(list, f) ==
    IF f.selectedCategory # AllCategories
    THEN LET Keep(t) == CategoryMatch(t, f) IN Filter(list, Keep)
    ELSE list

AfterSearch(list, f) ==
    IF f.searchTerm # <<>>
    THEN LET Keep(t) == SearchMatch(t, f.searchTerm) IN Filter(list, Keep)
    ELSE list

AfterFree(list, f) ==
    IF f.freeOnly THEN Filter(list, FreeMatch) ELSE list

\* whether the bookmark step is taken
BookmarkFilterOn(f) == f.bookmarkedOnly /\ isAuthenticated /\ firebaseConfigured

\* with no bookmarked tool the function returns [] at once
AfterBookmark(list, f) ==
    IF BookmarkFilterOn(f)
    THEN IF bookmarkedToolIds = {} THEN <<>> ELSE Filter(list, BookmarkMatch)
    ELSE list

\* the free-only and bookmark steps taken on the full list instead of on what
\* the category and search steps left
FilteredToolsFromFullList(list, f) == AfterBookmark(AfterFree(list, f), f)

FilteredTools(list, f) ==
    AfterBookmark(AfterFree(AfterSearch(AfterCategory(list, f), f), f), f)

\* String.prototype.localeCompare on the letters used here: letters compare
\* by alphabet first, and lower case comes before upper case on a tie
CharRank(ch) ==
    CASE LowerChar(ch) = "a" -> 1
      [] LowerChar(ch) = "b" -> 2
      [] LowerChar(ch) = "c" -> 3
      [] OTHER -> 4

CaseRank(ch) == IF LowerChar(ch) = ch THEN 0 ELSE 1

\* lexicographic comparison of two sequences of ranks
RECURSIVE LexCompare(_, _)
LexCompare(a, b) ==
    IF a = <<>> /\ b = <<>> THEN 0
    ELSE IF a = <<>> THEN -1
    ELSE IF b = <<>> THEN 1
    ELSE IF Head(a) < Head(b) THEN -1
    ELSE IF Head(a) > Head(b) THEN 1
    ELSE LexCompare(Tail(a), Tail(b))

LocaleCompare(a, b) ==
    LET byLetter == LexCompare([i \in 1..Len(a) |-> CharRank(a[i])],
                               [i \in 1..Len(b) |-> CharRank(b[i])])
        byCase == LexCompare([i \in 1..Len(a) |-> CaseRank(a[i])],
                             [i \in 1..Len(b) |-> CaseRank(b[i])])
    IN IF byLetter # 0 THEN byLetter ELSE byCase

\* the comparator with a default branch that returns 0
CompareDefaultZero(a, b, order) ==
    CASE order = "rating_desc" -> b.averageRating - a.averageRating
      [] order = "rating_asc" -> a.averageRating - b.averageRating
      [] order = "name_asc" -> LocaleCompare(a.name, b.name)
      [] order = "name_desc" -> LocaleCompare(b.name, a.name)
      [] order = "created_desc" -> b.createdAt - a.createdAt
      [] order = "created_asc" -> a.createdAt - b.createdAt
      [] order = "updated_desc" -> b.updatedAt - a.updatedAt
      [] order = "updated_asc" -> a.updatedAt - b.updatedAt
      [] OTHER -> 0

\* the comparator of the sort, by sortOrder
Compare(a, b, order) ==
    CASE order = "rating_desc" -> b.averageRating - a.averageRating
      [] order = "rating_asc" -> a.averageRating - b.averageRating
      [] order = "name_asc" -> LocaleCompare(a.name, b.name)
      [] order = "name_desc" -> LocaleCompare(b.name, a.name)
      [] order = "created_desc" -> b.createdAt - a.createdAt
      [] order = "created_asc" -> a.createdAt - b.createdAt
      [] order = "updated_desc" -> b.updatedAt - a.updatedAt
      [] order = "updated_asc" -> a.updatedAt - b.updatedAt
      [] OTHER -> b.updatedAt - a.updatedAt

\* Array.prototype.sort with a consistent comparator: the sort is stable, so
\* an element comes after those that compare smaller and after the equal ones
\* that stood before it
SortedPosition(list, i, order) ==
    1 + Cardinality({j \in 1..Len(list) :
                        LET c == Compare(list[j], list[i], order)
                        IN c < 0 \/ (c = 0 /\ j < i)})

\* (SubSeq over the whole range only makes the positions a computed tuple)
SortTools(list, order) ==
    LET n == Len(list)
        pos == SubSeq([i \in 1..n |-> SortedPosition(list, i, order)], 1, n)
    IN SubSeq([k \in 1..n |-> list[CHOOSE i \in 1..n : pos[i] = k]], 1, n)

FilteredAndSortedTools == SortTools(FilteredTools(aiToolsData, filters), sortOrder)

\* Array.prototype.slice(start, end) with 0 <= start
Slice(list, start, end) ==
    LET e == IF end < Len(list) THEN end ELSE Len(list)
    IN IF start >= e THEN <<>> ELSE SubSeq(list, start + 1, e)

\* Math.ceil(n / d) for n >= 0, d > 0
CeilDiv(n, d) == (n + d - 1) \div d

\* a start index counted from 1
StartIndexFromOne(page) == (page - 1) * ITEMS_PER_PAGE + 1

StartIndex(page) == (page - 1) * ITEMS_PER_PAGE

PageOf(list, page) == Slice(list, StartIndex(page), StartIndex(page) + ITEMS_PER_PAGE)

PaginatedTools == PageOf(FilteredAndSortedTools, currentPage)

TotalPagesOf(list) == CeilDiv(Len(list), ITEMS_PER_PAGE)

TotalPages == TotalPagesOf(FilteredAndSortedTools)

\* the dependencies of the page-reset effect changed between two renders
ResetDepsChanged(f, g, o, q) ==
    \/ f.searchTerm # g.searchTerm
    \/ f.selectedCategory # g.selectedCategory
    \/ o # q
    \/ f.freeOnly # g.freeOnly
    \/ f.bookmarkedOnly # g.bookmarkedOnly

\* a render of AppContent after filters or sortOrder were set, followed by
\* the effect that calls setCurrentPage(1)
SetFiltersAndSort(g, q) ==
    /\ filters' = g
    /\ sortOrder' = q
    /\ currentPage' = IF ResetDepsChanged(filters, g, sortOrder, q) THEN 1
                      ELSE currentPage

ListFrame == UNCHANGED <<aiToolsData, firebaseConfigured, route, tmSearchTerm,
                         tmSelectedCategory, tmCurrentPage>>

\* handleCategoryChange
HandleCategoryChange(category) ==
    /\ route = "main"
    /\ category # filters.selectedCategory
    /\ SetFiltersAndSort([filters EXCEPT !.selectedCategory = category], sortOrder)
    /\ ListFrame
    /\ UNCHANGED <<isAuthenticated, bookmarkedToolIds>>
    /\ UNCHANGED notList

\* onSearchChange
OnSearchChange(term) ==
    /\ route = "main"
    /\ term # filters.searchTerm
    /\ SetFiltersAndSort([filters EXCEPT !.searchTerm = term], sortOrder)
    /\ ListFrame
    /\ UNCHANGED <<isAuthenticated, bookmarkedToolIds>>
    /\ UNCHANGED notList

\* onSortChange
OnSortChange(value) ==
    /\ route = "main"
    /\ value # sortOrder
    /\ SetFiltersAndSort(filters, value)
    /\ ListFrame
    /\ UNCHANGED <<isAuthenticated, bookmarkedToolIds>>
    /\ UNCHANGED notList

\* onFreeOnlyChange
OnFreeOnlyChange(value) ==
    /\ route = "main"
    /\ value # filters.freeOnly
    /\ SetFiltersAndSort([filters EXCEPT !.freeOnly = value], sortOrder)
    /\ ListFrame
    /\ UNCHANGED <<isAuthenticated, bookmarkedToolIds>>
    /\ UNCHANGED notList

\* handleBookmarkedOnlyChange: refused when signed out
HandleBookmarkedOnlyChange(value) ==
    /\ route = "main"
    /\ value # filters.bookmarkedOnly
    /\ IF value /\ ~isAuthenticated
       THEN UNCHANGED <<filters, sortOrder, currentPage>>
       ELSE SetFiltersAndSort([filters EXCEPT !.bookmarkedOnly = value], sortOrder)
    /\ ListFrame
    /\ UNCHANGED <<isAuthenticated, bookmarkedToolIds>>
    /\ UNCHANGED notList

\* the auth state changes: the effect on isAuthenticated clears bookmarkedOnly
\* when signed out, and useBookmarks drops its data without a user
AuthStateChanged(value) ==
    /\ route = "main"
    /\ value # isAuthenticated
    /\ isAuthenticated' = value
    /\ SetFiltersAndSort([filters EXCEPT !.bookmarkedOnly = IF value THEN @ ELSE FALSE],
                         sortOrder)
    /\ bookmarkedToolIds' = IF value THEN bookmarkedToolIds ELSE {}
    /\ ListFrame
    /\ UNCHANGED notList

\* the tool ids the signed-in user may have bookmarked
BookmarkIdInputs == {{}, {1}, {2, 3, 4}}

\* the listener of AppContent's useBookmarks delivers the user's bookmarks
BookmarksChanged(ids) ==
    /\ route = "main"
    /\ isAuthenticated
    /\ ids # bookmarkedToolIds
    /\ bookmarkedToolIds' = ids
    /\ ListFrame
    /\ UNCHANGED <<filters, sortOrder, currentPage, isAuthenticated>>
    /\ UNCHANGED notList

\* Pagination: rendered only with more than one page; handlePageChange
\* passes a page in 1..totalPages other than the current one to onPageChange,
\* which is setCurrentPage
OnPageChange ==
    /\ route = "main"
    /\ LET totalPages == TotalPages
       IN /\ totalPages > 1
          /\ \E page \in 1..totalPages :
                /\ page # currentPage
                /\ currentPage' = page
    /\ ListFrame
    /\ UNCHANGED <<filters, sortOrder, isAuthenticated, bookmarkedToolIds>>
    /\ UNCHANGED notList

----------------------------------------------------------------------------
(* ToolManager: the admin list *)

TM_ITEMS_PER_PAGE == 10

\* useTools(selectedCategory): the tools of the category, or all of them
TmTools ==
    IF tmSelectedCategory # AllCategories
    THEN LET Keep(t) == t.category = tmSelectedCategory IN Filter(aiToolsData, Keep)
    ELSE aiToolsData

\* filteredTools
TmFilteredTools ==
    LET Keep(t) == tmSearchTerm = <<>> \/ SearchMatch(t, tmSearchTerm)
    IN Filter(TmTools, Keep)

TmTotalPages == CeilDiv(Len(TmFilteredTools), TM_ITEMS_PER_PAGE)

TmFrame == UNCHANGED <<aiToolsData, filters, sortOrder, currentPage,
                       isAuthenticated, firebaseConfigured, bookmarkedToolIds,
                       route>>

\* handleCategoryChange of ToolManager
TmHandleCategoryChange(category) ==
    /\ route = "admin"
    /\ category # tmSelectedCategory
    /\ tmSelectedCategory' = category
    /\ tmCurrentPage' = 1
    /\ UNCHANGED tmSearchTerm
    /\ TmFrame
    /\ UNCHANGED notList

\* the search box: onChange={(e) => setSearchTerm(e.target.value)}
TmSetSearchTerm(term) ==
    /\ route = "admin"
    /\ term # tmSearchTerm
    /\ tmSearchTerm' = term
    /\ UNCHANGED <<tmSelectedCategory, tmCurrentPage>>
    /\ TmFrame
    /\ UNCHANGED notList

\* the pages the rendered buttons can ask for: previous, next, and 1..totalPages
TmPageButtons(totalPages) ==
    (1..totalPages)
    \cup (IF tmCurrentPage # 1 THEN {tmCurrentPage - 1} ELSE {})
    \cup (IF tmCurrentPage # totalPages THEN {tmCurrentPage + 1} ELSE {})

\* handlePageChange of ToolManager: setCurrentPage(pageNumber)
TmHandlePageChange ==
    /\ route = "admin"
    /\ LET totalPages == TmTotalPages
       IN /\ totalPages > 1
          /\ \E pageNumber \in TmPageButtons(totalPages) :
                /\ pageNumber # tmCurrentPage
                /\ pageNumber <= MaxAdminPage
                /\ tmCurrentPage' = pageNumber
    /\ UNCHANGED <<tmSearchTerm, tmSelectedCategory>>
    /\ TmFrame
    /\ UNCHANGED notList

----------------------------------------------------------------------------
(* Tool lists and the specifications of the list pages *)

ToolPool ==
    { [id |-> 1, category |-> "c1", name |-> <<"A", "b">>, description |-> <<"x">>,
       plan |-> FreePlan, averageRating |-> 45, createdAt |-> 1, updatedAt |-> 4],
      [id |-> 2, category |-> "c1", name |-> <<"c">>, description |-> <<"a", "B">>,
       plan |-> "null", averageRating |-> 45, createdAt |-> 2, updatedAt |-> 3],
      [id |-> 3, category |-> "c2", name |-> <<"b", "a">>, description |-> <<>>,
       plan |-> FreePlan, averageRating |-> 30, createdAt |-> 3, updatedAt |-> 3],
      [id |-> 4, category |-> "c2", name |-> <<"x">>, description |-> <<"C">>,
       plan |-> "PAID", averageRating |-> 0, createdAt |-> 4, updatedAt |-> 1] }

\* the lists of at most MaxTools distinct tools of the pool
ToolLists ==
    {s \in UNION {[1..n -> ToolPool] : n \in 0..MaxTools} :
        \A i, j \in 1..Len(s) : i # j => s[i] # s[j]}

\* a generated list of n tools whose fields vary with the position
CatalogueTool(i) ==
    [id |-> i,
     category |-> IF i % 2 = 0 THEN "c1" ELSE "c2",
     name |-> IF i % 3 = 0 THEN <<"a">> ELSE <<"B">>,
     description |-> <<>>,
     plan |-> IF i % 4 = 0 THEN FreePlan ELSE "null",
     averageRating |-> (i * 7) % 51,
     createdAt |-> i,
     updatedAt |-> (i * 13) % 17]

Catalogue(n) == [i \in 1..n |-> CatalogueTool(i)]

OthersAtRest ==
    /\ BookmarksAtRest
    /\ RatingsAtRest
    /\ CommentsAtRest
    /\ ImportAtRest
    /\ LoaderAtRest
    /\ AdminAtRest
    /\ now = 0
    /\ ToolAtRest

ListControlsAtRest ==
    /\ filters = DefaultFilters
    /\ sortOrder = "updated_desc"
    /\ currentPage = 1
    /\ isAuthenticated = FALSE
    /\ bookmarkedToolIds = {}
    /\ tmSearchTerm = <<>>
    /\ tmSelectedCategory = AllCategories
    /\ tmCurrentPage = 1

\* the main list over a short list of tools: every filter control, signing
\* in and out, and the bookmarks of the user
InitFilter ==
    /\ OthersAtRest
    /\ ListControlsAtRest
    /\ aiToolsData \in ToolLists
    /\ firebaseConfigured \in BOOLEAN
    /\ route = "main"

NextFilter ==
    \/ \E c \in CategoryInputs : HandleCategoryChange(c)
    \/ \E term \in SearchInputs : OnSearchChange(term)
    \/ \E o \in SortOptions : OnSortChange(o)
    \/ \E v \in BOOLEAN : OnFreeOnlyChange(v)
    \/ \E v \in BOOLEAN : HandleBookmarkedOnlyChange(v)
    \/ \E v \in BOOLEAN : AuthStateChanged(v)
    \/ \E ids \in BookmarkIdInputs : BookmarksChanged(ids)

SpecFilter == InitFilter /\ [][NextFilter]_vars

\* the main list over a list of any length up to MaxItems: sorting, the
\* free-only filter and paging
InitPaging ==
    /\ OthersAtRest
    /\ ListControlsAtRest
    /\ aiToolsData \in {Catalogue(n) : n \in 0..MaxItems}
    /\ firebaseConfigured = TRUE
    /\ route = "main"

NextPaging ==
    \/ \E o \in SortOptions : OnSortChange(o)
    \/ \E v \in BOOLEAN : OnFreeOnlyChange(v)
    \/ OnPageChange

SpecPaging == InitPaging /\ [][NextPaging]_vars

\* the values onSortChange can be handed (value as SortOption): the eight
\* options and a string that is none of them
SortInputs == SortOptions \cup {"relevance"}

\* the main list over the short lists, under every sort order
NextSort ==
    \/ \E o \in SortInputs : OnSortChange(o)
    \/ \E v \in BOOLEAN : OnFreeOnlyChange(v)
    \/ \E c \in CategoryInputs : HandleCategoryChange(c)

SpecSort == InitFilter /\ [][NextSort]_vars

\* both list pages over the longest list: every control of the main list and
\* of the tool manager
InitPages ==
    /\ OthersAtRest
    /\ ListControlsAtRest
    /\ aiToolsData = Catalogue(MaxItems)
    /\ firebaseConfigured = TRUE
    /\ route \in {"main", "admin"}

NextPages ==
    \/ \E c \in CategoryInputs : HandleCategoryChange(c)
    \/ \E term \in SearchInputs : OnSearchChange(term)
    \/ \E o \in SortOptions : OnSortChange(o)
    \/ \E v \in BOOLEAN : OnFreeOnlyChange(v)
    \/ \E v \in BOOLEAN : HandleBookmarkedOnlyChange(v)
    \/ \E v \in BOOLEAN : AuthStateChanged(v)
    \/ \E ids \in BookmarkIdInputs : BookmarksChanged(ids)
    \/ OnPageChange
    \/ \E c \in CategoryInputs : TmHandleCategoryChange(c)
    \/ \E term \in SearchInputs : TmSetSearchTerm(term)
    \/ TmHandlePageChange

SpecPages == InitPages /\ [][NextPages]_vars

\* how many tools the store holds when the listener of useTools fires
LiveSizes == {0, 1, ITEMS_PER_PAGE, ITEMS_PER_PAGE + 1, MaxItems}

\* the onSnapshot listener of useTools delivers the tools now stored:
\* setData(tools); the pages read it as aiToolsData / toolsData and no
\* effect looks at the page number
ToolsChanged(n) ==
    /\ aiToolsData # Catalogue(n)
    /\ aiToolsData' = Catalogue(n)
    /\ UNCHANGED <<filters, sortOrder, currentPage, isAuthenticated,
                   firebaseConfigured, bookmarkedToolIds, route, tmSearchTerm,
                   tmSelectedCategory, tmCurrentPage>>
    /\ UNCHANGED notList

\* both list pages while tools are added to and removed from the store
InitLive ==
    /\ OthersAtRest
    /\ ListControlsAtRest
    /\ aiToolsData \in {Catalogue(n) : n \in LiveSizes}
    /\ firebaseConfigured = TRUE
    /\ route \in {"main", "admin"}

NextLive ==
    \/ \E n \in LiveSizes : ToolsChanged(n)
    \/ \E c \in CategoryInputs : HandleCategoryChange(c)
    \/ \E v \in BOOLEAN : OnFreeOnlyChange(v)
    \/ OnPageChange
    \/ \E c \in CategoryInputs : TmHandleCategoryChange(c)
    \/ TmHandlePageChange

SpecLive == InitLive /\ [][NextLive]_vars

----------------------------------------------------------------------------
(* Claims about the list pages *)

Range(s) == {s[i] : i \in 1..Len(s)}

\* each filter on its own over the full list; a filter that is off keeps all
OnlyCategory ==
    IF filters.selectedCategory # AllCategories
    THEN {t \in Range(aiToolsData) : t.category = filters.selectedCategory}
    ELSE Range(aiToolsData)

OnlySearch ==
    IF filters.searchTerm # <<>>
    THEN {t \in Range(aiToolsData) : SearchMatch(t, filters.searchTerm)}
    ELSE Range(aiToolsData)

OnlyFree ==
    IF filters.freeOnly
    THEN {t \in Range(aiToolsData) : t.plan = FreePlan}
    ELSE Range(aiToolsData)

OnlyBookmarked ==
    IF filters.bookmarkedOnly /\ isAuthenticated /\ firebaseConfigured
    THEN {t \in Range(aiToolsData) : t.id \in bookmarkedToolIds}
    ELSE Range(aiToolsData)

\* the four steps taken in the opposite order
FilteredToolsReversed(list, f) ==
    AfterCategory(AfterSearch(AfterFree(AfterBookmark(list, f), f), f), f)

\* C8: for every combination of the category, search, free-only and
\* bookmark-only filters, the set of records the list pipeline produces is
\* the intersection of the sets each active filter gives on its own over the
\* full list, and taking the filter steps in another order gives the same set.
C8_FiltersIntersect ==
    /\ Range(FilteredAndSortedTools) =
          OnlyCategory \cap OnlySearch \cap OnlyFree \cap OnlyBookmarked
    /\ Range(FilteredToolsReversed(aiToolsData, filters)) =
          Range(FilteredAndSortedTools)

\* two filters are on, each alone keeps more than both together, and both
\* together keep something
C8_Witness ==
    /\ filters.selectedCategory # AllCategories
    /\ filters.freeOnly
    /\ Range(FilteredAndSortedTools) # {}
    /\ Range(FilteredAndSortedTools) # OnlyCategory
    /\ Range(FilteredAndSortedTools) # OnlyFree

RECURSIVE ConcatPages(_, _, _)
ConcatPages(list, page, totalPages) ==
    IF page > totalPages THEN <<>>
    ELSE PageOf(list, page) \o ConcatPages(list, page + 1, totalPages)

\* C9: the pages 1..totalPages (page size 40) of the filtered and sorted list,
\* one after the other, are that list, nothing missing and nothing twice; the
\* last page holds total mod 40 records, or 40 when total is a nonzero
\* multiple of 40.
C9_PagesCoverList ==
    LET list == FilteredAndSortedTools
        totalPages == TotalPagesOf(list)
    IN /\ ConcatPages(list, 1, totalPages) = list
       /\ Len(list) > 0 =>
             Len(PageOf(list, totalPages)) =
                IF Len(list) % ITEMS_PER_PAGE = 0 THEN ITEMS_PER_PAGE
                ELSE Len(list) % ITEMS_PER_PAGE

\* the last of three pages is shown
C9_Witness ==
    /\ Len(FilteredAndSortedTools) > 2 * ITEMS_PER_PAGE
    /\ currentPage = 3
    /\ Len(PaginatedTools) = Len(FilteredAndSortedTools) - 2 * ITEMS_PER_PAGE

\* a filter or the sort order of the main list changes in this step
MainListFilterChanges ==
    \/ filters'.selectedCategory # filters.selectedCategory
    \/ filters'.searchTerm # filters.searchTerm
    \/ filters'.freeOnly # filters.freeOnly
    \/ filters'.bookmarkedOnly # filters.bookmarkedOnly
    \/ sortOrder' # sortOrder

\* a filter of the tool manager's list changes in this step
ToolManagerFilterChanges ==
    \/ tmSelectedCategory' # tmSelectedCategory
    \/ tmSearchTerm' # tmSearchTerm

\* the main list alone: every change of a filter or of the sort order leaves
\* currentPage at 1
MainListResetsPage == [][MainListFilterChanges => currentPage' = 1]_vars

\* C10: every change of the category, the search term, the sort order, the
\* free-only or the bookmark-only filter sets the current page of the list it
\* filters to 1, whatever page was shown before.
C10_FilterChangeResetsPage ==
    [][/\ MainListFilterChanges => currentPage' = 1
       /\ ToolManagerFilterChanges => tmCurrentPage' = 1]_vars

----------------------------------------------------------------------------
(* Claims about ratings *)

\* the cached aggregate agrees with the rating documents now stored
AggregateConsistent ==
    /\ tool.averageRating = RoundedAverage(RatingsOfTool(ToolId))
    /\ tool.ratingCount = Cardinality(RatingsOfTool(ToolId))

RatingValuesAre(a, b, c) ==
    \E x, y, z \in RatingsOfTool(ToolId) :
        /\ Cardinality({x, y, z}) = 3
        /\ RatingsOfTool(ToolId) = {x, y, z}
        /\ x.rating = a /\ y.rating = b /\ z.rating = c

\* C1: with rating operations performed one at a time (SpecRatingsSeq),
\* after each operation the tool's averageRating is the mean of the tool's
\* rating documents rounded to one decimal and ratingCount is their number;
\* ratings 3.0, 4.0, 5.0 give averageRating 4.0 and ratingCount 3.
C1_SequentialAggregate ==
    RBusy = {} =>
        /\ AggregateConsistent
        /\ RatingValuesAre(30, 40, 50) =>
              (tool.averageRating = 40 /\ tool.ratingCount = 3)

\* C2: once every started rating operation and its recompute step has ended
\* (operations may have overlapped), the tool's averageRating and ratingCount
\* are the rounded mean and the number of the rating documents stored.
C2_QuiescentAggregate ==
    (\A s \in RSessions : rpc[s] = "idle") =>
        (tool.ratingCount = Cardinality(RatingsOfTool(ToolId))
         /\ tool.averageRating = RoundedAverage(RatingsOfTool(ToolId)))

----------------------------------------------------------------------------
(* Claims about bookmarks *)

\* C4: the bookmark collection holds at most one document for each
\* (userId, toolId) pair.
C4_OneBookmarkPerUserTool ==
    \A b1, b2 \in bookmarks :
        (b1.userId = b2.userId /\ b1.toolId = b2.toolId) => b1.id = b2.id

\* C5: after two toggles of one card on the tool, the second started after
\* the first ended and no other card writing meanwhile, a bookmark of
\* (user, tool) exists exactly if one existed before the first toggle.
C5_TwoTogglesRestore ==
    pair.stage = 4 =>
        ((BookmarksOfPair(CardUser(pair.card), ToolId) # {}) <=> pair.before)

----------------------------------------------------------------------------
(* Claims about comments *)

\* the comment a running delete names, as it was stored
DeleteTarget(s) == {c \in cever : c.id = creq[s].id}

\* a delete operation of session s ends in this step, with or without error
DeleteEnds(s) ==
    /\ creq[s].kind = "delete"
    /\ cpc[s] \in {"del_replies", "del_comment"}
    /\ cpc'[s] \in {"idle", "touch"}

\* C6: with comment operations performed one at a time (SpecCommentsSeq),
\* when the delete of a top-level comment ends, neither the comment nor
\* any reply whose parentId is that comment is stored, and the comment goes
\* only after the replies the operation set out to delete; when the delete
\* of a reply ends, exactly that one document has gone.
C6_CascadeDelete ==
    [][\A s \in RSessions : DeleteEnds(s) =>
          \A t \in DeleteTarget(s) :
             IF t.parentId = 0
             THEN /\ \A c \in comments' : c.id # t.id /\ c.parentId # t.id
                  /\ creq[s].pending = {}
             ELSE comments' = comments \ {t}]_vars

C3_OneRatingPerUser ==
    \A r1, r2 \in ratings :
        (r1.toolId = r2.toolId /\ r1.userId = r2.userId) => r1.id = r2.id

----------------------------------------------------------------------------
(* Rating values *)

OutOfRange(v) == v < 5 \/ v > 50

\* C11: addRating or updateRating called with a value outside [0.5, 5.0]
\* ends at once with the range message, and that call changes neither the
\* ratings collection nor the tool document; called with 0.5 or 5.0 the
\* call passes the range check (it goes on to its store write, or addRating
\* gives its already-rated message).
C11_OutOfRangeRejected ==
    [][\A s \in RSessions, v \in RatingProbes :
          /\ (AddRating(s, v) /\ OutOfRange(v))
                => (rresult' = "invalid" /\ rpc'[s] = "idle"
                      /\ ratings' = ratings /\ tool' = tool)
          /\ (\E i \in RKnownIds(s) : UpdateRating(s, i, v) /\ OutOfRange(v))
                => (rresult' = "invalid" /\ rpc'[s] = "idle"
                      /\ ratings' = ratings /\ tool' = tool)
          /\ (AddRating(s, v) /\ v \in {5, 50})
                => (rpc'[s] = "write" \/ rresult' = "duplicate")
          /\ (\E i \in RKnownIds(s) : UpdateRating(s, i, v) /\ v \in {5, 50})
                => rpc'[s] = "write"]_vars

\* a call was turned down with the range message while ratings of 0.5 and
\* of 5.0 are stored
C11_Witness ==
    /\ rresult = "invalid"
    /\ \E r \in ratings : r.rating = 5
    /\ \E r \in ratings : r.rating = 50

\* C12: every stored rating value is an exact multiple of 0.5 within
\* [0.5, 5.0] (in tenths: a multiple of 5 from 5 to 50).
C12_StoredValuesHalfSteps ==
    \A r \in ratings : r.rating % 5 = 0 /\ r.rating >= 5 /\ r.rating <= 50

----------------------------------------------------------------------------
(* The add path and the update path *)

HasRating(u) == \E r \in ratings : r.userId = u /\ r.toolId = ToolId

\* C13: addRating called by a user who already has a rating for the tool is
\* turned down with the already-rated message, and no step of an add by such
\* a user puts a new document into the ratings collection.
C13_SecondAddRejected ==
    [][\A s \in RSessions :
          /\ \A v \in RatingInputs :
                (AddRating(s, v) /\ ~OutOfRange(v) /\ HasRating(RSessionUser(s)))
                   => (rresult' = "duplicate" /\ rpc'[s] = "idle")
          /\ (rpc[s] = "write" /\ rreq[s].kind = "add" /\ HasRating(RSessionUser(s)))
                => ratings' = ratings]_vars

----------------------------------------------------------------------------
(* A failed recompute step *)

\* C14: when the update of the tool document in the recompute step is
\* turned down by the store, the rating operation still ends as a success
\* and the ratings collection stays as the rating write left it.
C14_RecomputeFailureSwallowed ==
    [][\A s \in RSessions :
          (rpc[s] = "update" /\ rpc'[s] = "idle" /\ ~RuleToolUpdate(RSessionUser(s)))
             => (rresult' = "ok" /\ ratings' = ratings /\ tool' = tool)]_vars

\* an add has ended as a success although its recompute step was turned
\* down: the rating is stored and the tool document still counts none
C14_Witness ==
    /\ RBusy = {}
    /\ rresult = "ok"
    /\ \E r \in ratings : r.userId # tool.createdBy
    /\ tool.ratingCount = 0

----------------------------------------------------------------------------
(* Comment content *)

\* a content that is empty (nothing but whitespace) or longer than the limit
BadContent(t) == Length(Trim(t)) = 0 \/ Length(t) > MAX_COMMENT_LENGTH

\* C15: addComment or updateComment called with a content that is empty or
\* longer than 1000 characters ends at once with its message; that call
\* changes neither the comments collection nor the tool document, and no
\* write for it is left in flight.
C15_BadContentRejected ==
    [][\A s \in EditSessions, t \in ContentInputs, i \in CommentIdInputs :
          ((AddComment(s, t, i) \/ UpdateComment(s, i, t)) /\ BadContent(t))
             => /\ cresult' \in {"empty", "too_long"}
                /\ cpc'[s] = "idle"
                /\ comments' = comments
                /\ tool' = tool]_vars

\* a content one character too long was turned down while a comment of
\* exactly the greatest length is stored
C15_Witness ==
    /\ cresult = "too_long"
    /\ \E c \in comments : Length(c.content) = MAX_COMMENT_LENGTH

\* the fields of a comment an edit leaves alone
SameButContent(c, d) ==
    /\ d.id = c.id
    /\ d.userId = c.userId
    /\ d.userName = c.userName
    /\ d.toolId = c.toolId
    /\ d.parentId = c.parentId
    /\ d.createdAt = c.createdAt

\* C16: the store write of an edit leaves every other comment as it was,
\* adds and removes none, and leaves the edited comment's userId, userName,
\* toolId, parentId and createdAt as they were.
C16_EditFrame ==
    [][\A s \in EditSessions :
          (cpc[s] = "edit" /\ cpc'[s] # "edit")
             => /\ {c.id : c \in comments'} = {c.id : c \in comments}
                /\ Cardinality(comments') = Cardinality(comments)
                /\ \A c \in comments : \E d \in comments' :
                      /\ SameButContent(c, d)
                      /\ c.id # creq[s].id => d = c]_vars

\* an edited comment is stored: its content is not the one it was created
\* with and its updatedAt is later than its createdAt
C16_Witness ==
    \E c \in comments :
       /\ c.updatedAt > c.createdAt
       /\ \E o \in cever : o.id = c.id /\ o.content # c.content

----------------------------------------------------------------------------
(* Operations on an id that is not held locally *)

LocalRatingIds(s) == {r.id : r \in rdata[s]}

\* updateComment and deleteComment called with an id that is not in data
\* end at once with the not-found message, with no store call in flight
CommentUnknownIdRejected ==
    [][\A s \in EditSessions, i \in CommentIdInputs :
          (i \notin LocalCommentIds(s)
             /\ (DeleteComment(s, i)
                   \/ \E t \in ContentInputs : ~BadContent(t) /\ UpdateComment(s, i, t)))
             => (cresult' = "not_found" /\ cpc'[s] = "idle"
                   /\ comments' = comments /\ tool' = tool)]_vars

\* C17: updateRating or deleteRating called with an id that is not in the
\* locally held ratings ends at once with a message, and no read or write
\* for it is sent to the store (the session is not left waiting on one).
C17_UnknownIdNoRoundTrip ==
    [][\A s \in RSessions :
          (MissingId \notin LocalRatingIds(s)
             /\ (DeleteRating(s, MissingId)
                   \/ \E v \in RatingInputs : ~OutOfRange(v) /\ UpdateRating(s, MissingId, v)))
             => (rpc'[s] = "idle" /\ rresult' = "error")]_vars

----------------------------------------------------------------------------
(* The order of the list *)

\* a may stand before b under the order named by sortOrder; a value that
\* names no order asks for updatedAt descending
MayPrecede(a, b) ==
    CASE sortOrder = "rating_desc" -> a.averageRating >= b.averageRating
      [] sortOrder = "rating_asc" -> a.averageRating <= b.averageRating
      [] sortOrder = "name_asc" -> LocaleCompare(a.name, b.name) <= 0
      [] sortOrder = "name_desc" -> LocaleCompare(a.name, b.name) >= 0
      [] sortOrder = "created_desc" -> a.createdAt >= b.createdAt
      [] sortOrder = "created_asc" -> a.createdAt <= b.createdAt
      [] sortOrder = "updated_desc" -> a.updatedAt >= b.updatedAt
      [] sortOrder = "updated_asc" -> a.updatedAt <= b.updatedAt
      [] OTHER -> a.updatedAt >= b.updatedAt

----------------------------------------------------------------------------
(* The admin session: useAdminAuth, AdminLogin, AdminLayout *)

ADMIN_ID == "admin"

ADMIN_PW == "admin123"

\* the id and password typed into the login form
Credentials == {<<"admin", "admin123">>, <<"admin", "guess">>, <<"root", "admin123">>}

ProtectedPages == {"tools", "categories"}

\* what localStorage can hold under 'adminSession' when a page loads: no
\* item, an item that is not JSON, or a session record
StoredSessions ==
    {NoSession, [kind |-> "garbage", isAdmin |-> FALSE, expiresAt |-> 0]}
      \cup [kind : {"session"}, isAdmin : BOOLEAN, expiresAt : 0..MaxWall]

\* checkAdminSession's test with >= in place of >
SessionValidAtExpiry(session, time) ==
    /\ session.kind = "session"
    /\ session.isAdmin
    /\ session.expiresAt >= time

\* checkAdminSession's test: session && session.isAdmin &&
\* session.expiresAt > Date.now()
SessionValid(session, time) ==
    /\ session.kind = "session"
    /\ session.isAdmin
    /\ session.expiresAt > time

\* AdminLayout renders its children only when not loading and admin
AdminContentShown ==
    adminRoute \in ProtectedPages /\ ~adminIsLoading /\ adminIsAdmin

\* a page under AdminProvider is loaded: a new useAdminAuth with
\* isAdmin false and isLoading true
LoadAdminPage(page) ==
    /\ adminRoute' = page
    /\ adminIsAdmin' = FALSE
    /\ adminIsLoading' = TRUE
    /\ UNCHANGED <<adminSession, wallClock>>
    /\ UNCHANGED notAdmin

\* the effect of useAdminAuth after the page is mounted
CheckAdminSession ==
    /\ adminRoute # "none"
    /\ adminIsLoading
    /\ IF adminSession.kind = "absent"
       THEN UNCHANGED <<adminSession, adminIsAdmin>>
       ELSE IF SessionValid(adminSession, wallClock)
       THEN /\ adminIsAdmin' = TRUE
            /\ UNCHANGED adminSession
       ELSE /\ adminSession' = NoSession
            /\ adminIsAdmin' = FALSE
    /\ adminIsLoading' = FALSE
    /\ UNCHANGED <<wallClock, adminRoute>>
    /\ UNCHANGED notAdmin

\* the effect of AdminLayout: navigate('/admin/login') when not loading and
\* not admin; the login page is loaded
RedirectToLogin ==
    /\ adminRoute \in ProtectedPages
    /\ ~adminIsLoading
    /\ ~adminIsAdmin
    /\ adminRoute' = "login"
    /\ adminIsAdmin' = FALSE
    /\ adminIsLoading' = TRUE
    /\ UNCHANGED <<adminSession, wallClock>>
    /\ UNCHANGED notAdmin

\* AdminLogin's handleSubmit and adminLogin; the write of the login record
\* to adminLogs may fail and is ignored
AdminLogin(id, password) ==
    /\ adminRoute = "login"
    /\ ~adminIsLoading
    /\ ~adminIsAdmin
    /\ IF id = ADMIN_ID /\ password = ADMIN_PW
       THEN /\ adminSession' = [kind |-> "session", isAdmin |-> TRUE,
                                expiresAt |-> wallClock + SessionLifetime]
            /\ adminIsAdmin' = TRUE
       ELSE UNCHANGED <<adminSession, adminIsAdmin>>
    /\ UNCHANGED <<wallClock, adminRoute, adminIsLoading>>
    /\ UNCHANGED notAdmin

\* the effect of AdminLogin (and the end of handleSubmit): navigate to
\* '/admin/tools' when admin; the tool manager page is loaded
RedirectToTools ==
    /\ adminRoute = "login"
    /\ ~adminIsLoading
    /\ adminIsAdmin
    /\ adminRoute' = "tools"
    /\ adminIsAdmin' = FALSE
    /\ adminIsLoading' = TRUE
    /\ UNCHANGED <<adminSession, wallClock>>
    /\ UNCHANGED notAdmin

\* AdminLayout's handleLogout: adminLogout, then navigate('/admin/login')
HandleLogout ==
    /\ AdminContentShown
    /\ adminSession' = NoSession
    /\ adminRoute' = "login"
    /\ adminIsAdmin' = FALSE
    /\ adminIsLoading' = TRUE
    /\ UNCHANGED wallClock
    /\ UNCHANGED notAdmin

\* time passes
WallClockTick ==
    /\ wallClock < MaxWall
    /\ wallClock' = wallClock + 1
    /\ UNCHANGED <<adminSession, adminRoute, adminIsAdmin, adminIsLoading>>
    /\ UNCHANGED notAdmin

InitAdmin ==
    /\ ListAtRest
    /\ BookmarksAtRest
    /\ RatingsAtRest
    /\ CommentsAtRest
    /\ ImportAtRest
    /\ LoaderAtRest
    /\ now = 0
    /\ ToolAtRest
    /\ adminSession \in StoredSessions
    /\ wallClock = 0
    /\ adminRoute = "none"
    /\ adminIsAdmin = FALSE
    /\ adminIsLoading = FALSE

NextAdmin ==
    \/ \E page \in ProtectedPages \cup {"login"} : LoadAdminPage(page)
    \/ CheckAdminSession
    \/ RedirectToLogin
    \/ \E c \in Credentials : AdminLogin(c[1], c[2])
    \/ RedirectToTools
    \/ HandleLogout
    \/ WallClockTick

\* the effects of a mounted page always run
SpecAdmin ==
    /\ InitAdmin
    /\ [][NextAdmin]_vars
    /\ WF_vars(CheckAdminSession)
    /\ WF_vars(RedirectToLogin)

----------------------------------------------------------------------------
(* The admin gate *)

\* the stored session is absent, or its expiresAt is not later than now
TokenAbsentOrExpired ==
    \/ adminSession.kind = "absent"
    \/ adminSession.kind = "session" /\ adminSession.expiresAt <= wallClock

\* the session check of a protected page runs in this step
ProtectedPageChecked ==
    adminRoute \in ProtectedPages /\ adminIsLoading /\ ~adminIsLoading'

\* C19: a protected admin page shows nothing before its session check has
\* run; when the check finds the stored session absent or not later than
\* the wall clock, the content stays hidden, and the page then goes to the
\* login page (unless another page is loaded first).
C19_ProtectedPageGate ==
    /\ [](adminRoute \in ProtectedPages /\ adminIsLoading => ~AdminContentShown)
    /\ [][(ProtectedPageChecked /\ TokenAbsentOrExpired) => ~AdminContentShown']_vars
    /\ ((adminRoute \in ProtectedPages /\ ~adminIsLoading /\ ~adminIsAdmin)
          ~> (adminRoute = "login" \/ adminIsLoading))

\* a protected page is loaded, after a login, at the very time the session
\* of that login expires
C19_Witness ==
    /\ adminRoute \in ProtectedPages
    /\ adminIsLoading
    /\ adminSession.kind = "session"
    /\ adminSession.isAdmin
    /\ adminSession.expiresAt = wallClock
    /\ wallClock >= SessionLifetime

----------------------------------------------------------------------------
(* useTools: updateTool and deleteTool; the operations of every collection *)

ToolNames == {"n1", "n2"}

\* updateTool: updateDoc of the tool document with the edited fields and a
\* new updatedAt; the userId handed in is not looked at
UpdateTool(s, name) ==
    /\ now < MaxOwnerOps
    /\ RBusy = {} /\ CBusy = {}
    /\ now' = now + 1
    /\ IF RuleToolUpdate(RSessionUser(s))
       THEN /\ tool' = [tool EXCEPT !.name = name, !.updatedAt = now + 1]
            /\ toolResult' = "ok"
       ELSE /\ UNCHANGED tool
            /\ toolResult' = "error"
    /\ UNCHANGED notTools

\* deleteTool that also removes the ratings and the comments of the tool
DeleteToolCascade(s) ==
    /\ now < MaxOwnerOps
    /\ RBusy = {} /\ CBusy = {}
    /\ now' = now + 1
    /\ IF RuleToolUpdate(RSessionUser(s))
       THEN /\ tool' = [tool EXCEPT !.exists = FALSE]
            /\ ratings' = {}
            /\ comments' = {}
            /\ toolResult' = "ok"
       ELSE /\ UNCHANGED <<tool, ratings, comments>>
            /\ toolResult' = "error"
    /\ UNCHANGED <<nextRatingId, rdata, rpc, rreq, rsnap, rresult>>
    /\ UNCHANGED <<nextCommentId, cdata, cpc, creq, cever, cresult>>
    /\ UNCHANGED <<bvars, lvars, avars, ivars, dvars>>

\* deleteTool: deleteDoc of the tool document
DeleteTool(s) ==
    /\ now < MaxOwnerOps
    /\ RBusy = {} /\ CBusy = {}
    /\ now' = now + 1
    /\ IF RuleToolUpdate(RSessionUser(s))
       THEN /\ tool' = [tool EXCEPT !.exists = FALSE]
            /\ toolResult' = "ok"
       ELSE /\ UNCHANGED tool
            /\ toolResult' = "error"
    /\ UNCHANGED notTools

\* a new operation may start: none is in flight, and fewer than MaxOwnerOps
\* were started
OwnerIdle == RBusy = {} /\ CBusy = {} /\ now < MaxOwnerOps

OwnerRatingInputs == {30, 40}

\* the operations on tools, ratings and comments, one at a time, by the
\* creator of the tool and by another user
NextOwnership ==
    \/ \E s \in EditSessions, n \in ToolNames : UpdateTool(s, n)
    \/ \E s \in EditSessions : DeleteTool(s)
    \/ \E s \in EditSessions, v \in OwnerRatingInputs : OwnerIdle /\ AddRating(s, v)
    \/ \E s \in EditSessions, v \in OwnerRatingInputs : \E r \in rdata[s] :
          OwnerIdle /\ UpdateRating(s, r.id, v)
    \/ \E s \in EditSessions : \E r \in rdata[s] : OwnerIdle /\ DeleteRating(s, r.id)
    \/ \E s \in EditSessions : RatingWrite(s)
    \/ \E s \in EditSessions : RecomputeRead(s)
    \/ \E s \in EditSessions : RecomputeWrite(s)
    \/ \E s \in EditSessions : RatingsSnapshot(s)
    \/ \E s \in EditSessions : OwnerIdle /\ AddComment(s, PlainText, 0)
    \/ \E s \in EditSessions : \E p \in ReplyTargets(s) :
          OwnerIdle /\ AddComment(s, PlainText, p)
    \/ \E s \in EditSessions : \E i \in LocalCommentIds(s) :
          OwnerIdle /\ UpdateComment(s, i, Text(0, 5, 0))
    \/ \E s \in EditSessions : \E i \in LocalCommentIds(s) :
          OwnerIdle /\ DeleteComment(s, i)
    \/ \E s \in EditSessions : CommentAddWrite(s)
    \/ \E s \in EditSessions : CommentUpdateWrite(s)
    \/ \E s \in EditSessions : UpdateToolUpdatedAt(s)
    \/ \E s \in EditSessions : DeleteReplyWrite(s)
    \/ \E s \in EditSessions : DeleteCommentWrite(s)
    \/ \E s \in EditSessions : CommentsSnapshot(s)

SpecOwnership == InitComments /\ [][NextOwnership]_vars

\* the cards whose bookmark button is used next to the tool operations
DeleteCards == {"c1", "c3"}

\* ratings, comments and bookmarks of the tool are made, one operation at a
\* time, and the tool is deleted by its creator or by another user
NextToolDelete ==
    \/ \E s \in EditSessions : DeleteTool(s)
    \/ \E s \in EditSessions : OwnerIdle /\ AddRating(s, 30)
    \/ \E s \in EditSessions : RatingWrite(s)
    \/ \E s \in EditSessions : RecomputeRead(s)
    \/ \E s \in EditSessions : RecomputeWrite(s)
    \/ \E s \in EditSessions : RatingsSnapshot(s)
    \/ \E s \in EditSessions : OwnerIdle /\ AddComment(s, PlainText, 0)
    \/ \E s \in EditSessions : CommentAddWrite(s)
    \/ \E s \in EditSessions : UpdateToolUpdatedAt(s)
    \/ \E s \in EditSessions : CommentsSnapshot(s)
    \/ \E c \in DeleteCards : BookmarksLoaded(c)
    \/ \E c \in DeleteCards : OwnerIdle /\ HandleBookmarkToggle(c, FALSE)
    \/ \E c \in DeleteCards : AddBookmarkCheck(c)
    \/ \E c \in DeleteCards : AddBookmarkWrite(c)
    \/ \E c \in DeleteCards : RemoveBookmarkCheck(c)
    \/ \E c \in DeleteCards : RemoveBookmarkWrite(c)

SpecToolDelete == InitComments /\ [][NextToolDelete]_vars

----------------------------------------------------------------------------
(* Ownership *)

----------------------------------------------------------------------------
(* Deleting a tool *)

----------------------------------------------------------------------------
(* The bookmark button *)

\* C24: the toggles of one bookmark control are serialized: the control has
\* an operation in flight exactly while its processing flag is set, and a
\* click on the control while the flag is set starts nothing: no store
\* read or write is queued and the running operation goes on as it was.
C24_TogglesSerialized ==
    /\ [](\A c \in Cards : processing[c] <=> bpc[c] # "idle")
    /\ [][\A c \in Cards :
             (processing[c] /\ (HandleBookmarkToggle(c, TRUE) \/ HandleBookmarkToggle(c, FALSE)))
                => UNCHANGED <<bookmarks, nextBookmarkId, bpc, bcap, bdoc, isBookmarked, now>>]_vars

\* the first click of a double-click has got as far as its addDoc, the button
\* can be clicked again, and nothing is stored yet
C24_Witness ==
    /\ processing["c1"]
    /\ ~bloading["c1"]
    /\ bpc["c1"] = "add_write"
    /\ bookmarks = {}

\* C30: when a toggle of a card's bookmark button ends, by returning or by
\* throwing, the card's isBookmarked tells whether a bookmark of the card's
\* user for the tool is stored.
C30_FlagMatchesStore ==
    [][\A c \in Cards :
          (bpc[c] # "idle" /\ bpc'[c] = "idle")
             => (isBookmarked'[c]
                   <=> \E b \in bookmarks' : b.userId = CardUser(c) /\ b.toolId = ToolId)]_vars

----------------------------------------------------------------------------
(* Replies and their parents *)

\* C26: every stored comment with a parentId refers to a comment that is
\* stored: no reply outlives its parent.
C26_NoOrphanReply ==
    \A c \in comments : c.parentId # 0 => \E p \in comments : p.id = c.parentId

----------------------------------------------------------------------------
(* The admin session over time *)

\* C27: whenever useAdminAuth reports isAdmin, localStorage holds a session
\* record with isAdmin true whose expiresAt is later than the wall clock.
C27_AdminHasLiveSession ==
    adminIsAdmin => SessionValid(adminSession, wallClock)

----------------------------------------------------------------------------
(* The page number while the data changes *)

\* C28: the page number of the shown list is at least 1 and at most
\* max(1, totalPages), on the main list and in the tool manager.
C28_PageInRange ==
    /\ route = "main" =>
          /\ 1 <= currentPage
          /\ currentPage <= (IF TotalPages > 1 THEN TotalPages ELSE 1)
    /\ route = "admin" =>
          /\ 1 <= tmCurrentPage
          /\ tmCurrentPage <= (IF TmTotalPages > 1 THEN TmTotalPages ELSE 1)

----------------------------------------------------------------------------
(* exportImport: parseToolsFromJson and importToolsToFirebase, and          *)
(* ToolManager's handleFileSelect that calls them                           *)

\* files hold at most this many entries
MaxEntries == 2

MAX_BATCH_SIZE == 500

\* how many tool documents the store holds before an import
ExistingCounts == {0, 2, MAX_BATCH_SIZE, MAX_BATCH_SIZE + 1, 2 * MAX_BATCH_SIZE + 1}

\* the userId handleFileSelect hands to importToolsToFirebase
ImportUserId == "admin"

\* a JSON value of a field: a string, or anything else (absent, null, number)
JsonString(text) == [isString |-> TRUE, text |-> text]

JsonOther == [isString |-> FALSE, text |-> EmptyText]

\* an entry of the JSON array: an object with these fields, or null
Entry(name, category, url, description, memo, plan) ==
    [isNull |-> FALSE, name |-> name, category |-> category, url |-> url,
     description |-> description, memo |-> memo, plan |-> plan]

NullEntry ==
    [isNull |-> TRUE, name |-> JsonOther, category |-> JsonOther, url |-> JsonOther,
     description |-> JsonOther, memo |-> JsonOther, plan |-> JsonOther]

\* the entries files are made of: complete ones, ones with an empty, a
\* blank or a non-string field, and null
EntryPool ==
    LET word  == JsonString(Text(0, 1, 0))
        empty == JsonString(EmptyText)
        blank == JsonString(Text(1, 0, 0))
    IN { Entry(word, word, word, word, JsonOther, JsonOther),
         Entry(word, word, word, empty, word, word),
         Entry(empty, word, word, word, JsonOther, JsonOther),
         Entry(blank, word, word, word, JsonOther, JsonOther),
         Entry(JsonOther, word, word, word, JsonOther, JsonOther),
         Entry(word, blank, word, word, JsonOther, JsonOther),
         Entry(word, word, JsonOther, word, JsonOther, JsonOther),
         Entry(word, word, word, JsonOther, JsonOther, JsonOther),
         NullEntry }

ImportFiles == UNION {[1..n -> EntryPool] : n \in 0..MaxEntries}

\* the test of an entry that does not trim: a blank name, category or url
\* passes
ItemIsValidNoTrim(item) ==
    /\ item.name.isString /\ Length(item.name.text) # 0
    /\ item.category.isString /\ Length(item.category.text) # 0
    /\ item.url.isString /\ Length(item.url.text) # 0
    /\ item.description.isString

\* the test of an entry: typeof item.name === 'string' &&
\* item.name.trim() !== '' && ... && typeof item.description === 'string'
ItemIsValid(item) ==
    /\ item.name.isString /\ Length(Trim(item.name.text)) # 0
    /\ item.category.isString /\ Length(Trim(item.category.text)) # 0
    /\ item.url.isString /\ Length(Trim(item.url.text)) # 0
    /\ item.description.isString

\* the ToolInput made of a valid entry: memo '' and plan null unless strings
ToToolInput(item) ==
    [name |-> item.name.text, category |-> item.category.text, url |-> item.url.text,
     description |-> item.description.text,
     memo |-> IF item.memo.isString THEN item.memo.text ELSE EmptyText,
     plan |-> IF item.plan.isString THEN item.plan ELSE JsonOther]

\* parsedData.forEach from entry i on; reading a field of null throws, and
\* the catch turns that into the error parseToolsFromJson throws
RECURSIVE ParseFrom(_, _, _, _)
ParseFrom(items, i, validTools, invalidEntries) ==
    IF i > Len(items)
    THEN [status |-> "ok", validTools |-> validTools, invalidEntries |-> invalidEntries]
    ELSE IF items[i].isNull
    THEN [status |-> "error", validTools |-> <<>>, invalidEntries |-> <<>>]
    ELSE IF ItemIsValid(items[i])
    THEN ParseFrom(items, i + 1, Append(validTools, ToToolInput(items[i])), invalidEntries)
    ELSE ParseFrom(items, i + 1, validTools, Append(invalidEntries, items[i]))

ParseToolsFromJson(items) == ParseFrom(items, 1, <<>>, <<>>)

\* firestore.rules, match /tools/{toolId}: allow create
RuleToolCreate(uid, createdBy) == uid # "none" /\ uid = createdBy

\* firestore.rules, match /tools/{toolId}: allow delete
RuleToolDelete(uid, createdBy) == uid # "none" /\ uid = createdBy

\* the sizes of the batches the forEach over docsArray commits
DeleteBatches(n) ==
    [i \in 1..CeilDiv(n, MAX_BATCH_SIZE) |->
        IF i * MAX_BATCH_SIZE <= n THEN MAX_BATCH_SIZE
        ELSE n - (i - 1) * MAX_BATCH_SIZE]

\* s without its element i
RemoveAt(s, i) == SubSeq(s, 1, i - 1) \o SubSeq(s, i + 1, Len(s))

\* handleFileSelect's reader.onload up to the call of importToolsToFirebase:
\* parse, give up on a throw or on no valid tool, ask, start the import
HandleFileSelect(file, mode, importConfirmed) ==
    /\ importPc = "idle"
    /\ parseResult.status = "none"
    /\ importFile' = file
    /\ parseResult' = ParseToolsFromJson(file)
    /\ IF /\ parseResult'.status = "ok"
          /\ Len(parseResult'.validTools) # 0
          /\ importConfirmed
       THEN /\ importMode' = mode
            /\ importLeft' = Len(parseResult'.validTools)
            /\ importPc' = IF mode = "replace" THEN "read" ELSE "insert"
       ELSE UNCHANGED <<importMode, importLeft, importPc>>
    /\ UNCHANGED <<successCount, failCount, storedOld, storedNew, pendingCommits,
                   importAuth, oldCreator>>
    /\ UNCHANGED notImport

\* replace mode after getDocs: up to MAX_BATCH_SIZE documents go into one
\* batch whose commit is awaited; more are cut into batches whose commits
\* are started and not awaited
ImportGetDocs ==
    /\ importPc = "read"
    /\ IF storedOld <= MAX_BATCH_SIZE
       THEN /\ pendingCommits' = <<storedOld>>
            /\ importPc' = "commit"
       ELSE /\ pendingCommits' = SubSeq(DeleteBatches(storedOld), 1,
                                        CeilDiv(storedOld, MAX_BATCH_SIZE))
            /\ importPc' = "insert"
    /\ UNCHANGED <<importFile, parseResult, importMode, importLeft, successCount,
                   failCount, storedOld, storedNew, importAuth, oldCreator>>
    /\ UNCHANGED notImport

\* the store settles a committed batch: all its deletes are applied, or the
\* rules turn the batch down; an awaited commit that is turned down makes
\* importToolsToFirebase throw
CommitBatch ==
    /\ \E i \in 1..Len(pendingCommits) :
          LET allowed == pendingCommits[i] = 0 \/ RuleToolDelete(importAuth, oldCreator)
          IN /\ storedOld' = IF allowed THEN storedOld - pendingCommits[i] ELSE storedOld
             /\ importPc' = IF importPc = "commit"
                            THEN (IF allowed THEN "insert" ELSE "failed")
                            ELSE importPc
             /\ pendingCommits' = RemoveAt(pendingCommits, i)
    /\ UNCHANGED <<importFile, parseResult, importMode, importLeft, successCount,
                   failCount, storedNew, importAuth, oldCreator>>
    /\ UNCHANGED notImport

\* one turn of the for loop: await addDoc, counted as success or failure
ImportAddDoc ==
    /\ importPc = "insert"
    /\ importLeft > 0
    /\ importLeft' = importLeft - 1
    /\ IF RuleToolCreate(importAuth, ImportUserId)
       THEN /\ storedNew' = storedNew + 1
            /\ successCount' = successCount + 1
            /\ UNCHANGED failCount
       ELSE /\ failCount' = failCount + 1
            /\ UNCHANGED <<storedNew, successCount>>
    /\ UNCHANGED <<importFile, parseResult, importPc, importMode, storedOld,
                   pendingCommits, importAuth, oldCreator>>
    /\ UNCHANGED notImport

\* the loop is over: return {success, failed}
ImportReturn ==
    /\ importPc = "insert"
    /\ importLeft = 0
    /\ importPc' = "done"
    /\ UNCHANGED <<importFile, parseResult, importMode, importLeft, successCount,
                   failCount, storedOld, storedNew, pendingCommits, importAuth,
                   oldCreator>>
    /\ UNCHANGED notImport

\* the tool manager before a file is chosen, over a store that holds some
\* tools of one creator
InitImport ==
    /\ ListAtRest
    /\ BookmarksAtRest
    /\ RatingsAtRest
    /\ AdminAtRest
    /\ LoaderAtRest
    /\ CommentsAtRest
    /\ now = 0
    /\ ToolAtRest
    /\ importFile = <<>>
    /\ parseResult = NoParse
    /\ importPc = "idle"
    /\ importMode = "append"
    /\ importLeft = 0
    /\ successCount = 0
    /\ failCount = 0
    /\ storedOld \in ExistingCounts
    /\ storedNew = 0
    /\ pendingCommits = <<>>
    /\ importAuth \in {"admin", "u1", "none"}
    /\ oldCreator \in {"admin", "u1"}

NextImport ==
    \/ \E file \in ImportFiles, mode \in {"append", "replace"}, yes \in BOOLEAN :
          HandleFileSelect(file, mode, yes)
    \/ ImportGetDocs
    \/ CommitBatch
    \/ ImportAddDoc
    \/ ImportReturn

SpecImport == InitImport /\ [][NextImport]_vars

\* C21: in replace mode no imported tool is stored while a tool that was
\* stored when the import started is still stored: all of them are deleted
\* before the first insert, however many there are.
C21_DeletesBeforeInserts ==
    (importMode = "replace" /\ storedNew > 0) => storedOld = 0

\* a field that is a string
IsStringField(v) == v.isString

\* a field that is a string with a character that is not white space
NonBlank(v) == v.isString /\ v.text.body > 0

AllFourStrings(e) ==
    /\ ~e.isNull
    /\ IsStringField(e.name) /\ IsStringField(e.category)
    /\ IsStringField(e.url) /\ IsStringField(e.description)

Acceptable(e) ==
    /\ ~e.isNull
    /\ NonBlank(e.name) /\ NonBlank(e.category) /\ NonBlank(e.url)
    /\ IsStringField(e.description)

----------------------------------------------------------------------------
(* useTools: the effect that loads the tool list *)

\* how often the category or the sort order changes after the mount
MaxLoads == 3

LoaderCategories == {AllCategories, "c1"}

LoaderSorts == {"updated_desc", "name_asc"}

\* the switch on sortOrder: every option orders by its field and direction,
\* anything else by updatedAt descending
OrderByOf(sort) ==
    IF sort \in SortOptions THEN sort ELSE "updated_desc"

\* toolsQuery: with a category only where('category', '==', category),
\* without one only orderBy
BuildQuery(category, sort) ==
    IF category # AllCategories
    THEN [kind |-> "where", category |-> category, order |-> "none"]
    ELSE [kind |-> "orderBy", category |-> AllCategories, order |-> OrderByOf(sort)]

\* query(collection(db, 'tools')): the whole collection, no filter, no order
BasicQuery == [kind |-> "collection", category |-> AllCategories, order |-> "none"]

\* what the store may do to the effect's calls: accept the listener, throw
\* from onSnapshot, or throw while the query is built
LoadOutcomes == {"subscribed", "subscribe_throws", "query_throws"}

\* the effect on [category, sortOrder]: the cleanup of the run before
\* unsubscribes its listener; loadData sets isLoading, builds the query and
\* subscribes; the two catch blocks call fetchDataOnce.  hadData: whether
\* the data this run closed over was non-empty
LoadData(category, sort, outcome) ==
    /\ loadGen < MaxLoads
    /\ loadGen = 0 \/ <<category, sort>> # <<hookCategory, hookSortOrder>>
    /\ loadGen' = loadGen + 1
    /\ hookCategory' = category
    /\ hookSortOrder' = sort
    /\ toolsIsLoading' = TRUE
    /\ LET hadData == toolsData # NoQuery
           built == BuildQuery(category, sort)
       IN CASE outcome = "subscribed" ->
                 /\ subscription' = [gen |-> loadGen + 1, query |-> built,
                                     state |-> "active", hadData |-> hadData]
                 /\ UNCHANGED fetches
            [] outcome = "subscribe_throws" ->
                 /\ subscription' = NoSubscription
                 /\ fetches' = fetches \cup {[gen |-> loadGen + 1, query |-> built,
                                              hadData |-> hadData]}
            [] outcome = "query_throws" ->
                 /\ subscription' = NoSubscription
                 /\ fetches' = fetches \cup {[gen |-> loadGen + 1, query |-> BasicQuery,
                                              hadData |-> hadData]}
    /\ UNCHANGED <<toolsError, toolsData>>
    /\ UNCHANGED notLoader

\* the listener's first callback: setData, setIsLoading(false), setError(null)
SnapshotDelivered ==
    /\ subscription.state = "active"
    /\ toolsData' = subscription.query
    /\ toolsIsLoading' = FALSE
    /\ toolsError' = FALSE
    /\ UNCHANGED <<loadGen, hookCategory, hookSortOrder, subscription, fetches>>
    /\ UNCHANGED notLoader

\* the listener's second callback: fetchDataOnce(toolsQuery)
SnapshotError ==
    /\ subscription.state = "active"
    /\ subscription' = [subscription EXCEPT !.state = "errored"]
    /\ fetches' = fetches \cup {[gen |-> subscription.gen, query |-> subscription.query,
                                 hadData |-> subscription.hadData]}
    /\ UNCHANGED <<loadGen, hookCategory, hookSortOrder, toolsIsLoading, toolsError,
                   toolsData>>
    /\ UNCHANGED notLoader

\* fetchDataOnce after getDocs resolved
FetchOnceOk(f) ==
    /\ f \in fetches
    /\ fetches' = fetches \ {f}
    /\ toolsData' = f.query
    /\ toolsIsLoading' = FALSE
    /\ toolsError' = FALSE
    /\ UNCHANGED <<loadGen, hookCategory, hookSortOrder, subscription>>
    /\ UNCHANGED notLoader

\* the catch of fetchDataOnce without its setIsLoading(false)
FetchOnceFailStillLoading(f) ==
    /\ f \in fetches
    /\ fetches' = fetches \ {f}
    /\ toolsError' = TRUE
    /\ toolsData' = IF f.hadData THEN toolsData ELSE NoQuery
    /\ UNCHANGED <<loadGen, hookCategory, hookSortOrder, subscription, toolsIsLoading>>
    /\ UNCHANGED notLoader

\* the catch of fetchDataOnce after getDocs rejected: setError,
\* setIsLoading(false), and setData([]) when the data closed over was empty
FetchOnceFail(f) ==
    /\ f \in fetches
    /\ fetches' = fetches \ {f}
    /\ toolsError' = TRUE
    /\ toolsIsLoading' = FALSE
    /\ toolsData' = IF f.hadData THEN toolsData ELSE NoQuery
    /\ UNCHANGED <<loadGen, hookCategory, hookSortOrder, subscription>>
    /\ UNCHANGED notLoader

\* every getDocs call fetchDataOnce can have in flight
FetchCalls ==
    [gen : 1..MaxLoads,
     query : {BuildQuery(c, o) : c \in LoaderCategories, o \in LoaderSorts}
                \cup {BasicQuery},
     hadData : BOOLEAN]

\* the store answers a getDocs call
FetchSettles == \E f \in FetchCalls : FetchOnceOk(f) \/ FetchOnceFail(f)

InitLoader ==
    /\ ListAtRest
    /\ BookmarksAtRest
    /\ RatingsAtRest
    /\ AdminAtRest
    /\ ImportAtRest
    /\ CommentsAtRest
    /\ now = 0
    /\ ToolAtRest
    /\ loadGen = 0
    /\ hookCategory = AllCategories
    /\ hookSortOrder = "updated_desc"
    /\ toolsIsLoading = TRUE
    /\ toolsError = FALSE
    /\ toolsData = NoQuery
    /\ subscription = NoSubscription
    /\ fetches = {}

NextLoader ==
    \/ \E c \in LoaderCategories, o \in LoaderSorts, outcome \in LoadOutcomes :
          LoadData(c, o, outcome)
    \/ SnapshotDelivered
    \/ SnapshotError
    \/ \E f \in FetchCalls : FetchOnceOk(f)
    \/ \E f \in FetchCalls : FetchOnceFail(f)

SpecLoader == InitLoader /\ [][NextLoader]_vars

\* the store answers: a listener that stays open gets its snapshot, and
\* every getDocs call resolves or rejects
SpecLoaderLive ==
    /\ InitLoader
    /\ [][NextLoader]_vars
    /\ WF_vars(SnapshotDelivered)
    /\ WF_vars(FetchSettles)

\* C25: the loader falls back from the listener to a one-shot fetch of the
\* same query when the listener reports an error, and from a failed one-shot
\* fetch to a fetch of the basic query.
C25_FallbackChain ==
    [][/\ SnapshotError =>
             \E f \in fetches' \ fetches : f.query = subscription.query
       /\ \A f \in fetches :
             (FetchOnceFail(f) /\ f.query # BasicQuery)
                => \E h \in fetches' : h.gen = f.gen /\ h.query = BasicQuery]_vars

\* C29: every load that has started ends with isLoading false.
C29_LoadingEnds ==
    (loadGen > 0 /\ toolsIsLoading) ~> ~toolsIsLoading

\* the listener failed, the one-shot fetch failed too, and the hook is no
\* longer loading
C29_Witness ==
    /\ loadGen > 0
    /\ subscription.state = "errored"
    /\ fetches = {}
    /\ toolsError
    /\ ~toolsIsLoading

====
